---- MODULE Spec2Model ----
(***************************************************************************)
(* Batch rename: the session, the planner (validateRenameOperations), the  *)
(* transactional renamer (renameWithWorkspaceEdit) and the save / close /  *)
(* command handlers of the VS Code extension.                              *)
(*                                                                         *)
(* Strings are sequences of one-character strings, so that basename,       *)
(* join, trim and toLowerCase are computed and not assumed.  The file      *)
(* system is the set of paths of existing files; it is case sensitive or   *)
(* not, chosen once.  Every await of a handler is a point where other      *)
(* handlers and the environment may run; the existence probes of one loop  *)
(* are taken on one snapshot of the file system.                           *)
(***************************************************************************)
EXTENDS Integers, Sequences, FiniteSets, TLC

VARIABLES
    caseSensitive,      \* the file system distinguishes Foo from foo
    fs,                 \* paths of the files that exist
    fsEvents,           \* number of external changes of the file system so far
    watched,            \* the paths the user and the environment work with
    sessions,           \* every RenamingSession object created so far (index = identity)
    currentSession,     \* SessionManager.currentSession: an index of sessions, or NoSession
    sessionLock,        \* SessionManager.sessionLock
    isProcessingRename, \* BatchRenameCommandHandler.isProcessingRename
    visibleEditors,     \* sessions whose staging editor is visible
    save,               \* the invocations of the onWillSaveTextDocument listener
    cmd,                \* the invocations of the extension.renameBatch command
    closeEvents,        \* number of visible-editors events so far
    closeClears,        \* clearSession calls of the close listener awaiting their cleanup
                        \* I/O: for each, the session that was live when it was called
    contextAvailable,   \* extensionContext.initialize was called at activation
    workspaceState,     \* the persisted hints batchRename.lastAnchorUri / batchRename.targetUris
    unique              \* the call of getUniqueFilePath in progress

vars == <<caseSensitive, fs, fsEvents, watched, sessions, currentSession, sessionLock,
          isProcessingRename, visibleEditors, save, cmd, closeEvents, closeClears,
          contextAvailable, workspaceState, unique>>

----------------------------------------------------------------------------
(* Bounds of the model *)

MaxSel == 2
MaxFsEvents == 1
MaxSaves == 3
MaxCmds == 2
MaxCloses == 1
MaxEvents == 4

----------------------------------------------------------------------------
(* Strings and paths *)

SetMin(S) == CHOOSE x \in S : \A y \in S : x <= y
SetMax(S) == CHOOSE x \in S : \A y \in S : x >= y

LowerChar(c) == IF c = "A" THEN "a" ELSE IF c = "B" THEN "b" ELSE c
ToLowerCase(s) == [i \in 1..Len(s) |-> LowerChar(s[i])]

Trim(s) ==
    LET keep == {i \in 1..Len(s) : s[i] # " "}
    IN  IF keep = {} THEN <<>> ELSE SubSeq(s, SetMin(keep), SetMax(keep))

Includes(s, c) == \E i \in 1..Len(s) : s[i] = c

StartsWith(s, prefix) ==
    /\ Len(s) >= Len(prefix)
    /\ SubSeq(s, 1, Len(prefix)) = prefix

PathBasename(p) ==
    LET keep == {i \in 1..Len(p) : p[i] # "/"}
        q    == IF keep = {} THEN <<>> ELSE SubSeq(p, 1, SetMax(keep))
        seps == {i \in 1..Len(q) : q[i] = "/"}
    IN  IF seps = {} THEN q ELSE SubSeq(q, SetMax(seps) + 1, Len(q))

RECURSIVE CollapseSeps(_)
CollapseSeps(s) ==
    IF Len(s) < 2 THEN s
    ELSE IF s[1] = "/" /\ s[2] = "/" THEN CollapseSeps(Tail(s))
    ELSE <<s[1]>> \o CollapseSeps(Tail(s))

\* a path without the separator at its end (the root keeps it)
StripTrailingSep(p) ==
    IF Len(p) > 1 /\ p[Len(p)] = "/" THEN SubSeq(p, 1, Len(p) - 1) ELSE p

\* path.join normalises the joined path: repeated separators collapse and
\* the segment "." names the directory itself
PathJoin(a, b) ==
    IF b = <<>> THEN CollapseSeps(a)
    ELSE IF a = <<>> THEN CollapseSeps(b)
    ELSE IF b = <<".">> THEN StripTrailingSep(CollapseSeps(a))
    ELSE CollapseSeps(a \o <<"/">> \o b)

\* a validator that knows the forward slash only
ValidateFileNameSlashOnly(fileName) == ~Includes(fileName, "/")

ValidateFileName(fileName) == ~Includes(fileName, "/") /\ ~Includes(fileName, "\\")

----------------------------------------------------------------------------
(* The file system *)

FsUniverse ==
    { <<"/", "a">>, <<"/", "A">>, <<"/", "b">>, <<"/", "d", "/", "a">> }

\* the directories of these files: they exist whatever happens to the files
Directories == { <<"/">>, <<"/", "d">> }

Aliased(p, q) == p # q /\ ToLowerCase(p) = ToLowerCase(q)

FsStates(cs) ==
    {s \in SUBSET FsUniverse : cs \/ \A p \in s, q \in s : ~Aliased(p, q)}

FileExists(p, fsys, cs) ==
    IF cs THEN p \in fsys \cup Directories
    ELSE \E q \in fsys \cup Directories : ToLowerCase(q) = ToLowerCase(p)

Stored(p, fsys, cs) ==
    IF cs THEN p ELSE CHOOSE q \in fsys : ToLowerCase(q) = ToLowerCase(p)

----------------------------------------------------------------------------
(* Sessions *)

NoSession == 0

RenameFileOf(fsPath) ==
    LET basename == PathBasename(fsPath)
    IN  [fsPath   |-> fsPath,
         basename |-> basename,
         basepath |-> SubSeq(fsPath, 1, Len(fsPath) - Len(basename))]

StageFiles(paths) == [i \in 1..Len(paths) |-> RenameFileOf(paths[i])]

\* findIndex: the first entry whose fsPath is oldPath, 0 when there is none
FindIndex(files, oldPath) ==
    LET hits == {i \in 1..Len(files) : files[i].fsPath = oldPath}
    IN  IF hits = {} THEN 0 ELSE SetMin(hits)

\* an update that rewrites every entry of the list, whatever its path
UpdateSessionAfterRenameEveryEntry(files, oldPath, newPath) ==
    [i \in 1..Len(files) |-> RenameFileOf(newPath)]

\* an update that rewrites the path and leaves name and directory behind
UpdateSessionAfterRenamePathOnly(files, oldPath, newPath) ==
    LET fileIndex == FindIndex(files, oldPath)
    IN  IF fileIndex >= 1
        THEN [files EXCEPT ![fileIndex].fsPath = newPath]
        ELSE files

UpdateSessionAfterRename(files, oldPath, newPath) ==
    LET fileIndex == FindIndex(files, oldPath)
    IN  IF fileIndex >= 1
        THEN [files EXCEPT ![fileIndex] = RenameFileOf(newPath)]
        ELSE files

RECURSIVE UpdateSessionFiles(_, _)
UpdateSessionFiles(files, ops) ==
    IF ops = <<>> THEN files
    ELSE UpdateSessionFiles(
             UpdateSessionAfterRename(files, Head(ops).from, Head(ops).to),
             Tail(ops))

VerifySessionFiles(files, fsys, cs) ==
    \A i \in 1..Len(files) : FileExists(files[i].fsPath, fsys, cs)

\* a verification that trusts the staged list
VerifyAlways(sess, ss, fsys, cs) == TRUE

\* verifySessionFiles on the session the manager holds when it is called
Verify(sess, ss, fsys, cs) ==
    IF sess = NoSession THEN FALSE
    ELSE VerifySessionFiles(ss[sess].files, fsys, cs)

----------------------------------------------------------------------------
(* The planner: BatchRenamer.validateRenameOperations *)

Requests(files, names) ==
    [i \in 1..Len(files) |-> [file |-> files[i], newName |-> names[i]]]

Outcome(kind, msg, from, to) == [kind |-> kind, msg |-> msg, from |-> from, to |-> to]

\* a collision test without the exemption of case-only changes
IsCollisionNoCaseExemption(fsPath, newPath, fsys, cs) == FileExists(newPath, fsys, cs)

\* a collision test that lets every destination pass
IsCollisionNever(fsPath, newPath, fsys, cs) == FALSE

\* the target exists and the change is more than a change of letter case
IsCollision(fsPath, newPath, fsys, cs) ==
    /\ FileExists(newPath, fsys, cs)
    /\ ToLowerCase(fsPath) # ToLowerCase(newPath)

\* a loop body that takes the proposed name as the destination path
CheckRequestBareName(request, fsys, cs) ==
    LET file    == request.file
        newName == request.newName
        newPath == newName
    IN  IF Trim(newName) = <<>>
        THEN Outcome("skip", <<>>, <<>>, <<>>)
        ELSE IF ~ValidateFileName(newName)
        THEN Outcome("error", <<"Invalid filename", newName>>, <<>>, <<>>)
        ELSE IF file.fsPath = newPath
        THEN Outcome("skip", <<>>, <<>>, <<>>)
        ELSE IF ~FileExists(file.fsPath, fsys, cs)
        THEN Outcome("error", <<"File not found", file.fsPath>>, <<>>, <<>>)
        ELSE IF /\ FileExists(newPath, fsys, cs)
                /\ ToLowerCase(file.fsPath) # ToLowerCase(newPath)
        THEN Outcome("error", <<"Target already exists", newPath>>, <<>>, <<>>)
        ELSE Outcome("op", <<>>, file.fsPath, newPath)

\* a loop body that looks at the destination before it probes the source
CheckRequestCollisionFirst(request, fsys, cs) ==
    LET file    == request.file
        newName == request.newName
        newPath == PathJoin(file.basepath, newName)
    IN  IF Trim(newName) = <<>>
        THEN Outcome("skip", <<>>, <<>>, <<>>)
        ELSE IF ~ValidateFileName(newName)
        THEN Outcome("error", <<"Invalid filename", newName>>, <<>>, <<>>)
        ELSE IF file.fsPath = newPath
        THEN Outcome("skip", <<>>, <<>>, <<>>)
        ELSE IF /\ FileExists(newPath, fsys, cs)
                /\ ToLowerCase(file.fsPath) # ToLowerCase(newPath)
        THEN Outcome("error", <<"Target already exists", newPath>>, <<>>, <<>>)
        ELSE IF ~FileExists(file.fsPath, fsys, cs)
        THEN Outcome("error", <<"File not found", file.fsPath>>, <<>>, <<>>)
        ELSE Outcome("op", <<>>, file.fsPath, newPath)

\* a loop body that probes the source before it looks for a change
CheckRequestProbeFirst(request, fsys, cs) ==
    LET file    == request.file
        newName == request.newName
        newPath == PathJoin(file.basepath, newName)
    IN  IF Trim(newName) = <<>>
        THEN Outcome("skip", <<>>, <<>>, <<>>)
        ELSE IF ~ValidateFileName(newName)
        THEN Outcome("error", <<"Invalid filename", newName>>, <<>>, <<>>)
        ELSE IF ~FileExists(file.fsPath, fsys, cs)
        THEN Outcome("error", <<"File not found", file.fsPath>>, <<>>, <<>>)
        ELSE IF file.fsPath = newPath
        THEN Outcome("skip", <<>>, <<>>, <<>>)
        ELSE IF /\ FileExists(newPath, fsys, cs)
                /\ ToLowerCase(file.fsPath) # ToLowerCase(newPath)
        THEN Outcome("error", <<"Target already exists", newPath>>, <<>>, <<>>)
        ELSE Outcome("op", <<>>, file.fsPath, newPath)

\* one iteration of the loop over the requests
CheckRequest(request, fsys, cs) ==
    LET file    == request.file
        newName == request.newName
        newPath == PathJoin(file.basepath, newName)
    IN  IF Trim(newName) = <<>>
        THEN Outcome("skip", <<>>, <<>>, <<>>)
        ELSE IF ~ValidateFileName(newName)
        THEN Outcome("error", <<"Invalid filename", newName>>, <<>>, <<>>)
        ELSE IF file.fsPath = newPath
        THEN Outcome("skip", <<>>, <<>>, <<>>)
        ELSE IF ~FileExists(file.fsPath, fsys, cs)
        THEN Outcome("error", <<"File not found", file.fsPath>>, <<>>, <<>>)
        ELSE IF IsCollision(file.fsPath, newPath, fsys, cs)
        THEN Outcome("error", <<"Target already exists", newPath>>, <<>>, <<>>)
        ELSE Outcome("op", <<>>, file.fsPath, newPath)

IsError(o) == o.kind = "error"
IsOp(o) == o.kind = "op"

\* a planner that stops scanning at the first invalid request
ValidateRenameOperationsFirstError(requests, fsys, cs) ==
    LET outs == [i \in 1..Len(requests) |-> CheckRequest(requests[i], fsys, cs)]
        errs == SelectSeq(outs, IsError)
    IN  IF Len(errs) > 0
        THEN [threw |-> TRUE, errors |-> <<errs[1].msg>>, operations |-> <<>>]
        ELSE [threw |-> FALSE, errors |-> <<>>,
              operations |-> [i \in 1..Len(SelectSeq(outs, IsOp)) |->
                                 [from |-> SelectSeq(outs, IsOp)[i].from,
                                  to   |-> SelectSeq(outs, IsOp)[i].to]]]

ValidateRenameOperations(requests, fsys, cs) ==
    LET outs   == [i \in 1..Len(requests) |-> CheckRequest(requests[i], fsys, cs)]
        errs   == SelectSeq(outs, IsError)
        emits  == SelectSeq(outs, IsOp)
        errors == [i \in 1..Len(errs) |-> errs[i].msg]
        operations == [i \in 1..Len(emits) |-> [from |-> emits[i].from, to |-> emits[i].to]]
    IN  IF Len(errors) > 0
        THEN [threw |-> TRUE, errors |-> errors, operations |-> <<>>]
        ELSE [threw |-> FALSE, errors |-> <<>>, operations |-> operations]

----------------------------------------------------------------------------
(* The rename primitive: workspace.applyEdit of one WorkspaceEdit whose     *)
(* renames carry overwrite: false and ignoreIfExists: false.  It applies   *)
(* the renames in order and all or nothing; it may also fail for a reason  *)
(* of its own (returning false or throwing).                               *)

RECURSIVE ApplyRenames(_, _, _)
ApplyRenames(ops, fsys, cs) ==
    IF ops = <<>> THEN [ok |-> TRUE, fs |-> fsys]
    ELSE LET op == Head(ops)
             sameFile == ~cs /\ ToLowerCase(op.from) = ToLowerCase(op.to)
         IN  IF /\ FileExists(op.from, fsys, cs)
                /\ (sameFile \/ ~FileExists(op.to, fsys, cs))
             THEN ApplyRenames(Tail(ops),
                               (fsys \ {Stored(op.from, fsys, cs)}) \cup {op.to}, cs)
             ELSE [ok |-> FALSE, fs |-> fsys]

ApplyEditOutcomes(ops, fsys, cs) ==
    {"false", "throw"} \cup (IF ApplyRenames(ops, fsys, cs).ok THEN {"ok"} ELSE {})

----------------------------------------------------------------------------
(* The renamer: BatchRenamer.renameWithWorkspaceEdit *)

EmptyResult == [succeeded |-> 0, failed |-> <<>>, skipped |-> 0]

NoHints == [lastAnchorUri |-> <<>>, targetUris |-> <<>>]

\* no call of getUniqueFilePath is in progress
IdleUnique ==
    [pc |-> "idle", filePath |-> <<>>, newPath |-> <<>>, num |-> 0,
     answer |-> FALSE, probes |-> <<>>, result |-> <<>>]

Unknown == <<"u", "n", "k", "n", "o", "w", "n">>

\* a failure list that names only the first operation
FailedEntriesFirstOnly(ops, error) ==
    <<[path |-> ops[1].from, error |-> error]>>

FailedEntries(ops, error) ==
    [i \in 1..Len(ops) |-> [path |-> ops[i].from, error |-> error]]

FailedEntriesThrown(ops, error) ==
    [i \in 1..Len(ops) |->
        [path  |-> IF ops[i].from = <<>> THEN Unknown ELSE ops[i].from,
         error |-> error]]

\* a renamer that counts the operations before the failing one as succeeded
ResultOfPartial(ops, outcome) ==
    IF outcome = "ok"
    THEN [succeeded |-> Len(ops), failed |-> <<>>, skipped |-> 0]
    ELSE [succeeded |-> Len(ops) - 1,
          failed    |-> <<[path |-> ops[Len(ops)].from, error |-> "rename failed"]>>,
          skipped   |-> 0]

\* the RenameResult after applyEdit has answered
ResultOf(ops, outcome) ==
    IF outcome = "ok"
    THEN [succeeded |-> Len(ops), failed |-> <<>>, skipped |-> 0]
    ELSE IF outcome = "false"
    THEN [succeeded |-> 0,
          failed    |-> FailedEntries(ops, "Workspace edit failed to apply"),
          skipped   |-> 0]
    ELSE [succeeded |-> 0,
          failed    |-> FailedEntriesThrown(ops, "applyEdit threw"),
          skipped   |-> 0]

\* the session objects after the updateSessionAfterRename loop
SessionsAfterRename(ss, current, ops) ==
    IF current = NoSession THEN ss
    ELSE [ss EXCEPT ![current].files = UpdateSessionFiles(@, ops)]

\* storeWorkspaceState stores nothing without a context and when the update fails
StoreOutcomes(available) == IF available THEN BOOLEAN ELSE {FALSE}

\* the two storeWorkspaceState calls
StoredHints(ws, ops, s1, s2) ==
    IF Len(ops) = 0 THEN ws
    ELSE [lastAnchorUri |-> IF s1 THEN ops[Len(ops)].to ELSE ws.lastAnchorUri,
          targetUris    |-> IF s2 THEN [i \in 1..Len(ops) |-> ops[i].to]
                                  ELSE ws.targetUris]

\* the applyEdit calls of one execute: one call, of one WorkspaceEdit holding
\* every rename in the order of the operations
\* one applyEdit call per file
SubmittedEditsPerFile(ops) == [i \in 1..Len(ops) |-> <<ops[i]>>]

SubmittedEdits(ops) == <<ops>>

----------------------------------------------------------------------------
(* Invocations of the save listener *)

IdleSave ==
    [pc          |-> "idle",
     sess        |-> NoSession,  \* the session object performRename works on
     verified    |-> FALSE,      \* verifySessionFiles returned true
     missingAtVerify |-> 0,      \* staged files that were gone when it probed them
     text        |-> <<>>,       \* the characters of the saved buffer, where kept
     clearOf     |-> NoSession,  \* the session that was live when clearSession was called
     textLines   |-> 0,          \* the lines of a buffer that failed the count
     blankLines  |-> 0,          \* the number of those lines that are blank
     lineCount   |-> 0,          \* the number of name lines of the saved buffer
     fileCount   |-> 0,          \* the number of staged files they were compared with
     countOk     |-> FALSE,      \* the line count matched the staged files
     confirmed   |-> FALSE,      \* the user answered Yes
     planCalls   |-> 0,          \* calls of validateRenameOperations
     planFiles   |-> <<>>,       \* the staged files the requests were built from
     planFs      |-> {},         \* the file system the planner probed
     names       |-> <<>>,       \* the names of the requests
     planThrew   |-> FALSE,
     planErrors  |-> <<>>,
     ops         |-> <<>>,       \* the planned operations
     applied     |-> <<>>,       \* the WorkspaceEdits handed to applyEdit
     applyCalls  |-> 0,          \* the number of applyEdit calls
     fsAtApply   |-> {},         \* the file system applyEdit found
     fsAfter     |-> {},         \* the file system applyEdit left
     filesBefore |-> <<>>,       \* the live session's files when applyEdit answered
     outcome     |-> "none",     \* the answer of applyEdit
     result      |-> EmptyResult,
     anchorStep  |-> 0,          \* the step of the anchor strategy that opened an editor
     anchorOpen  |-> {},         \* the files visible in editors when the strategy ran
     anchorTried |-> <<>>,       \* the documents the strategy tried to open, in order
     end         |-> "none"]     \* how the invocation ended

----------------------------------------------------------------------------
(* renameWithWorkspaceEdit, step by step: up to the call of applyEdit, the *)
(* answer of applyEdit with the code that runs before the next await, and  *)
(* the hints and the anchor strategy.                                      *)

MaxOpenFiles == 1

\* the target of the last step: a document made of text, with no file
VirtualDocument == <<>>

\* the sets of batch files that visible editors show when the strategy runs
OpenPathSets(ops) ==
    {S \in SUBSET ({ops[i].from : i \in 1..Len(ops)} \cup {ops[i].to : i \in 1..Len(ops)}) :
        Cardinality(S) <= MaxOpenFiles}

\* strategy 1: a file of the batch is already open
IsAnyFileOpen(ops, openPaths) == \E i \in 1..Len(ops) : ops[i].from \in openPaths

\* a strategy that falls back on the source files first
AnchorTargetsSourcesFirst(ops) ==
    [i \in 1..(2 * Len(ops) + 1) |->
        IF i <= Len(ops) THEN ops[i].from
        ELSE IF i <= 2 * Len(ops) THEN ops[i - Len(ops)].to
        ELSE VirtualDocument]

\* strategies 2 to 4: the documents to open, in the order of the attempts
AnchorTargets(ops) ==
    [i \in 1..(2 * Len(ops) + 1) |->
        IF i <= Len(ops) THEN ops[i].to
        ELSE IF i <= 2 * Len(ops) THEN ops[i - Len(ops)].from
        ELSE VirtualDocument]

\* the attempts from step i on: oks[i] tells whether opening and showing
\* target i works; the first attempt that works ends the strategy
RECURSIVE TrySteps(_, _, _)
TrySteps(targets, oks, i) ==
    IF i > Len(targets) THEN <<>>
    ELSE IF oks[i] THEN <<[target |-> targets[i], ok |-> TRUE]>>
    ELSE <<[target |-> targets[i], ok |-> FALSE]>> \o TrySteps(targets, oks, i + 1)

\* createUndoAnchor: the attempts it makes, none when a file is already open
CreateUndoAnchor(ops, openPaths, oks) ==
    IF Len(ops) = 0 THEN <<>>
    ELSE IF IsAnyFileOpen(ops, openPaths) THEN <<>>
    ELSE TrySteps(AnchorTargets(ops), oks, 1)

\* the step that opened an anchor editor, 0 when none did
\* (1..n a destination file, n+1..2n a source file, 2n+1 the virtual document)
AnchorStepOf(tried) ==
    IF tried # <<>> /\ tried[Len(tried)].ok THEN Len(tried) ELSE 0

\* an execute that reports failure when a hint is not stored or no anchor
\* editor opens
ResultAfterAnchorStrict(result, ops, s1, s2, tried) ==
    IF s1 /\ s2 /\ (tried = <<>> \/ AnchorStepOf(tried) > 0) THEN result
    ELSE [succeeded |-> 0,
          failed |-> [i \in 1..Len(ops) |-> [path |-> ops[i].from, error |-> Unknown]],
          skipped |-> 0]

\* the result of execute after the hints and the anchor strategy: the
\* answers of storeWorkspaceState are dropped and the strategy's error is caught
ResultAfterAnchor(result, ops, s1, s2, tried) == result

\* a renamer without the early return for an empty operation list
XEnterNoEarlyReturn(h) ==
    LET s == save[h]
    IN  /\ s.pc = "exec"
        /\ save' = [save EXCEPT ![h] =
               [s EXCEPT !.pc = "applying",
                         !.applied = s.applied \o SubmittedEdits(s.ops),
                         !.applyCalls = s.applyCalls + Len(SubmittedEdits(s.ops))]]
        /\ UNCHANGED <<caseSensitive, unique, contextAvailable, fs, fsEvents, watched, sessions, currentSession,
                       sessionLock, isProcessingRename, visibleEditors, cmd,
                       closeEvents, closeClears, workspaceState>>

XEnter(h) ==
    LET s == save[h]
    IN  /\ s.pc = "exec"
        /\ save' = [save EXCEPT ![h] =
               IF Len(s.ops) = 0
               THEN [s EXCEPT !.pc = "executed", !.result = EmptyResult]
               ELSE [s EXCEPT !.pc = "applying",
                              !.applied = s.applied \o SubmittedEdits(s.ops),
                              !.applyCalls = s.applyCalls + Len(SubmittedEdits(s.ops))]]
        /\ UNCHANGED <<caseSensitive, unique, contextAvailable, fs, fsEvents, watched, sessions, currentSession,
                       sessionLock, isProcessingRename, visibleEditors, cmd,
                       closeEvents, closeClears, workspaceState>>

XApply(h) ==
    LET s == save[h]
    IN  /\ s.pc = "applying"
        /\ \E outcome \in ApplyEditOutcomes(s.ops, fs, caseSensitive) :
              /\ fs' = IF outcome = "ok"
                       THEN ApplyRenames(s.ops, fs, caseSensitive).fs
                       ELSE fs
              /\ sessions' = IF outcome = "ok"
                             THEN SessionsAfterRename(sessions, currentSession, s.ops)
                             ELSE sessions
              /\ save' = [save EXCEPT ![h] =
                     [s EXCEPT !.pc = IF outcome = "ok" THEN "anchoring" ELSE "executed",
                               !.outcome = outcome,
                               !.fsAtApply = fs,
                               !.fsAfter = fs',
                               !.filesBefore = IF currentSession = NoSession
                                               THEN <<>>
                                               ELSE sessions[currentSession].files,
                               !.result = ResultOf(s.ops, outcome)]]
        /\ UNCHANGED <<caseSensitive, unique, contextAvailable, fsEvents, watched, currentSession, sessionLock,
                       isProcessingRename, visibleEditors, cmd, closeEvents,
                       closeClears, workspaceState>>

XAnchor(h) ==
    LET s == save[h]
    IN  /\ s.pc = "anchoring"
        /\ \E s1 \in StoreOutcomes(contextAvailable),
              s2 \in StoreOutcomes(contextAvailable),
              openPaths \in OpenPathSets(s.ops),
              oks \in [1..(2 * Len(s.ops) + 1) -> BOOLEAN] :
              LET tried == CreateUndoAnchor(s.ops, openPaths, oks)
              IN  /\ workspaceState' = StoredHints(workspaceState, s.ops, s1, s2)
                  /\ save' = [save EXCEPT ![h] =
                         [s EXCEPT !.pc = "executed",
                                   !.anchorStep = AnchorStepOf(tried),
                                   !.anchorOpen = openPaths,
                                   !.anchorTried = tried,
                                   !.result = ResultAfterAnchor(s.result, s.ops, s1, s2, tried)]]
        /\ UNCHANGED <<caseSensitive, unique, contextAvailable, fs, fsEvents, watched, sessions, currentSession,
                       sessionLock, isProcessingRename, visibleEditors, cmd,
                       closeEvents, closeClears>>

----------------------------------------------------------------------------
(* The environment: a file appears or vanishes *)

\* the events the user and the file system have delivered so far: command
\* invocations, saves, editor changes, file changes
UserEvents ==
    Cardinality({c \in DOMAIN cmd : cmd[c].pc # "idle"})
        + Cardinality({h \in DOMAIN save : save[h].pc # "idle"})
        + closeEvents + fsEvents

FsEvent ==
    /\ fsEvents < MaxFsEvents
    /\ UserEvents < MaxEvents
    /\ \E p \in watched :
          /\ p \in fs \/ ~FileExists(p, fs, caseSensitive)
          /\ fs' = IF p \in fs THEN fs \ {p} ELSE fs \cup {p}
    /\ fsEvents' = fsEvents + 1
    /\ UNCHANGED <<caseSensitive, unique, contextAvailable, watched, sessions, currentSession, sessionLock,
                   isProcessingRename, visibleEditors, save, cmd, closeEvents,
                   closeClears, workspaceState>>

----------------------------------------------------------------------------
(* SpecCore: a caller that stages a selection, plans one batch of requests *)
(* and hands the plan to the renamer, as the planner and the renamer are   *)
(* used by their contracts (plan, then execute).                           *)

\* the selections of the explorer: distinct entries, at most MaxSel of them
SelectionsOf(S) ==
    UNION {{sel \in [1..n -> S] : \A i, j \in 1..n : i # j => sel[i] # sel[j]} :
           n \in 0..MaxSel}

CoreNames ==
    { <<>>, <<" ">>, <<"a">>, <<"A">>, <<"b">>, <<".">>, <<"a", "/", "b">>, <<"b", "\\">> }

IdleCmd ==
    [pc      |-> "idle",
     sel     |-> <<>>,
     sess    |-> NoSession,
     clearOf |-> NoSession,  \* the session that was live when clearSession was called
     end     |-> "none"]

InitCore ==
    /\ caseSensitive \in BOOLEAN
    /\ fs \in FsStates(caseSensitive)
    /\ fsEvents = 0
    /\ watched = FsUniverse
    /\ \E sel \in SelectionsOf(FsUniverse) :
          /\ Len(sel) > 0
          /\ \A i \in 1..Len(sel) : sel[i] \in fs
          /\ sessions = <<[files |-> StageFiles(sel), document |-> TRUE]>>
    /\ currentSession = 1
    /\ sessionLock = FALSE
    /\ isProcessingRename = FALSE
    /\ visibleEditors = {1}
    /\ save = [h \in 1..MaxSaves |->
                 IF h = 1 THEN [IdleSave EXCEPT !.pc = "plan", !.sess = 1] ELSE IdleSave]
    /\ cmd = [c \in 1..MaxCmds |-> IdleCmd]
    /\ closeEvents = 0
    /\ closeClears = <<>>
    /\ contextAvailable \in BOOLEAN
    /\ workspaceState = NoHints
    /\ unique = IdleUnique

CorePlan(h) ==
    LET s == save[h]
        files == sessions[s.sess].files
    IN  /\ s.pc = "plan"
        /\ \E names \in [1..Len(files) -> CoreNames] :
              LET r == ValidateRenameOperations(Requests(files, names), fs, caseSensitive)
              IN  save' = [save EXCEPT ![h] =
                      [s EXCEPT !.pc = IF r.threw THEN "rejected" ELSE "exec",
                                !.names = names,
                                !.planFiles = files,
                                !.planFs = fs,
                                !.planCalls = s.planCalls + 1,
                                !.planThrew = r.threw,
                                !.planErrors = r.errors,
                                !.ops = r.operations]]
        /\ UNCHANGED <<caseSensitive, unique, contextAvailable, fs, fsEvents, watched, sessions, currentSession,
                       sessionLock, isProcessingRename, visibleEditors, cmd,
                       closeEvents, closeClears, workspaceState>>

NextCore ==
    \/ FsEvent
    \/ \E h \in 1..MaxSaves : CorePlan(h)
    \/ \E h \in 1..MaxSaves : XEnter(h)
    \/ \E h \in 1..MaxSaves : XApply(h)
    \/ \E h \in 1..MaxSaves : XAnchor(h)

SpecCore == InitCore /\ [][NextCore]_vars

----------------------------------------------------------------------------
(* Properties of the planner and the renamer, checked under SpecCore *)

Handlers == 1..MaxSaves

Planned(h) == save[h].planCalls > 0
PlannedRequests(h) == Requests(save[h].planFiles, save[h].names)

\* a request that fails one of the planner's checks, said without the planner
HasSeparator(name) == Includes(name, "/") \/ Includes(name, "\\")
RequestInvalid(r, fsys, cs) ==
    LET to == PathJoin(r.file.basepath, r.newName)
    IN  /\ Trim(r.newName) # <<>>
        /\ \/ HasSeparator(r.newName)
           \/ /\ to # r.file.fsPath
              /\ \/ ~FileExists(r.file.fsPath, fsys, cs)
                 \/ /\ FileExists(to, fsys, cs)
                    /\ ToLowerCase(to) # ToLowerCase(r.file.fsPath)

\* what the message of an invalid request names
ErrorSubject(r, fsys, cs) ==
    IF HasSeparator(r.newName) THEN r.newName
    ELSE IF ~FileExists(r.file.fsPath, fsys, cs) THEN r.file.fsPath
    ELSE PathJoin(r.file.basepath, r.newName)

InvalidIndices(h) ==
    {i \in 1..Len(PlannedRequests(h)) :
        RequestInvalid(PlannedRequests(h)[i], save[h].planFs, caseSensitive)}

\* the k-th smallest member of a set of numbers
RECURSIVE Nth(_, _)
Nth(S, k) == IF k = 1 THEN SetMin(S) ELSE Nth(S \ {SetMin(S)}, k - 1)

\* C2: plan returns operations only when no request is invalid; with an
\* invalid request it throws one error, returns no operation, and the error
\* holds one message per invalid request, in request order.
C2_PlanAllOrNothing ==
    \A h \in Handlers : Planned(h) =>
        LET bad == InvalidIndices(h)
            rs  == PlannedRequests(h)
        IN  /\ save[h].planThrew <=> bad # {}
            /\ save[h].planThrew => save[h].ops = <<>>
            /\ Len(save[h].planErrors) = Cardinality(bad)
            /\ \A k \in 1..Cardinality(bad) :
                   save[h].planErrors[k][2] =
                       ErrorSubject(rs[Nth(bad, k)], save[h].planFs, caseSensitive)

C2_Witness ==
    \E h \in Handlers :
        /\ Planned(h)
        /\ save[h].planThrew
        /\ Len(save[h].planErrors) = 2
        /\ save[h].planErrors[1][1] # save[h].planErrors[2][1]

Entered(h) == save[h].pc \in {"applying", "anchoring", "executed"}

\* C5: for a non-empty operation list, execute hands all operations, in plan
\* order, to applyEdit in exactly one call, whether the call succeeds or not.
C5_OneApplyEdit ==
    \A h \in Handlers :
        /\ (Entered(h) /\ Len(save[h].ops) > 0) => save[h].applied = <<save[h].ops>>
        /\ save[h].pc = "exec" => save[h].applied = <<>>

C5_Witness ==
    \E h \in Handlers :
        /\ save[h].pc = "executed"
        /\ Len(save[h].ops) = 2
        /\ save[h].outcome = "false"

LiveFiles == IF currentSession = NoSession THEN <<>> ELSE sessions[currentSession].files

\* C6: when applyEdit reports success, execute returns succeeded = |ops| and
\* failed = [], and every staged file that was the source of an operation has
\* path, name and directory of that operation's destination.
C6_SuccessUpdatesSession ==
    \A h \in Handlers :
        (save[h].outcome = "ok" /\ save[h].pc \in {"anchoring", "executed"}) =>
            /\ save[h].result.succeeded = Len(save[h].ops)
            /\ save[h].result.failed = <<>>
            /\ \A k \in 1..Len(save[h].filesBefore), i \in 1..Len(save[h].ops) :
                   save[h].filesBefore[k].fsPath = save[h].ops[i].from =>
                       /\ k <= Len(LiveFiles)
                       /\ LiveFiles[k] = RenameFileOf(save[h].ops[i].to)

\* C7: when applyEdit returns false or throws, execute returns succeeded = 0
\* and one failed entry per operation, in order, with the operation's source
\* as path and one common message, and no staged file is changed.
C7_FailureResult ==
    \A h \in Handlers :
        (save[h].pc = "executed" /\ save[h].outcome \in {"false", "throw"}) =>
            LET r == save[h].result
                ops == save[h].ops
            IN  /\ r.succeeded = 0
                /\ Len(r.failed) = Len(ops)
                /\ \A i \in 1..Len(ops) :
                       /\ r.failed[i].path = ops[i].from
                       /\ r.failed[i].error = r.failed[1].error
                /\ LiveFiles = save[h].filesBefore

C7_Witness ==
    \E h \in Handlers :
        /\ save[h].pc = "executed"
        /\ save[h].outcome = "throw"
        /\ Len(save[h].ops) = 2

\* C8: every RenameResult is all or nothing: succeeded = |ops| with no
\* failure, or succeeded = 0 with one failure per operation; skipped is 0.
C8_AllOrNothingResult ==
    \A h \in Handlers :
        save[h].pc = "executed" =>
            LET r == save[h].result
                n == Len(save[h].ops)
            IN  /\ \/ r.succeeded = n /\ r.failed = <<>>
                   \/ r.succeeded = 0 /\ Len(r.failed) = n
                /\ ~(r.succeeded > 0 /\ r.failed # <<>>)
                /\ r.skipped = 0

C8_Witness ==
    \E h \in Handlers :
        /\ save[h].pc = "executed"
        /\ Len(save[h].ops) = 2
        /\ save[h].outcome = "ok"

OpFeasible(op, fsys, cs) == ApplyRenames(<<op>>, fsys, cs).ok

\* C9: error recovery as the README promises it: when some file of a batch
\* cannot be renamed, every file of the batch that can be is renamed and
\* reported as succeeded.
C9_ErrorRecovery ==
    \A h \in Handlers :
        LET ops == save[h].ops
            r   == save[h].result
            can == {i \in 1..Len(ops) : OpFeasible(ops[i], save[h].fsAtApply, caseSensitive)}
        IN  (save[h].pc = "executed" /\ save[h].outcome # "none"
                /\ can # {} /\ can # 1..Len(ops)) =>
                /\ r.succeeded >= Cardinality(can)
                /\ \A i \in can :
                       /\ \A k \in 1..Len(r.failed) : r.failed[k].path # ops[i].from
                       /\ ops[i].to \in save[h].fsAfter

\* C10: execute of an empty operation list returns {0, [], 0} at once:
\* applyEdit is not called, no session file is updated, no anchor is
\* created and no hint is persisted.
C10_EmptyExecute ==
    \A h \in Handlers :
        (Planned(h) /\ ~save[h].planThrew /\ Len(save[h].ops) = 0
            /\ save[h].pc # "exec") =>
            /\ save[h].pc = "executed"
            /\ save[h].result = EmptyResult
            /\ save[h].applied = <<>>
            /\ save[h].outcome = "none"
            /\ LiveFiles = save[h].planFiles
            /\ save[h].anchorStep = 0
            /\ workspaceState = NoHints

C10_Witness ==
    \E h \in Handlers :
        /\ save[h].pc = "executed"
        /\ Planned(h)
        /\ Len(save[h].ops) = 0
        /\ \E i \in 1..Len(save[h].names) : save[h].names[i] = save[h].planFiles[i].basename

----------------------------------------------------------------------------
(* The staging buffer and its parsing *)

IsLineBreak(c) == c \in {"\n", "\r"}

\* String.prototype.split on runs of line breaks: the pieces between the
\* runs, empty pieces at either end included
RECURSIVE SplitLineBreaks(_)
SplitLineBreaks(raw) ==
    LET breaks == {i \in 1..Len(raw) : IsLineBreak(raw[i])}
    IN  IF breaks = {} THEN <<raw>>
        ELSE LET first == SetMin(breaks)
                 after == {i \in first..Len(raw) : ~IsLineBreak(raw[i])}
                 rest  == IF after = {} THEN <<>>
                          ELSE SubSeq(raw, SetMin(after), Len(raw))
             IN  <<SubSeq(raw, 1, first - 1)>> \o SplitLineBreaks(rest)

\* a filter that looks for the comment mark at the very start of the line
IsNameLineUntrimmed(line) ==
    /\ ~StartsWith(line, <<"/", "/">>)
    /\ Len(Trim(line)) > 0

IsNameLine(line) ==
    /\ ~StartsWith(Trim(line), <<"/", "/">>)
    /\ Len(Trim(line)) > 0

IsBlankLine(line) == Len(Trim(line)) = 0

\* the text is held as its lines (split on runs of line breaks)
GetNewFilenamesFromDocument(text) == SelectSeq(text, IsNameLine)

RECURSIVE CreateRenameRequestsFrom(_, _, _)
CreateRenameRequestsFrom(files, newNames, index) ==
    IF index > Len(files) THEN <<>>
    ELSE IF index <= Len(newNames) /\ Trim(newNames[index]) # <<>>
    THEN <<[file |-> files[index], newName |-> newNames[index]]>>
             \o CreateRenameRequestsFrom(files, newNames, index + 1)
    ELSE CreateRenameRequestsFrom(files, newNames, index + 1)

CreateRenameRequests(files, newNames) == CreateRenameRequestsFrom(files, newNames, 1)

----------------------------------------------------------------------------
(* SessionManager.clearSession: the part up to its first await asks for   *)
(* the staging editor to be closed when it is visible; the command closes  *)
(* it or throws and leaves it open.  The part after the cleanup I/O drops  *)
(* the session reference, whatever closing and deleting came to.           *)

ClearAwaits == currentSession # NoSession

\* the sets of visible editors the close command can leave behind
EditorsAfterClearBegin ==
    IF currentSession = NoSession THEN {visibleEditors}
    ELSE {visibleEditors \ {currentSession}, visibleEditors}

\* a cleanup that keeps the session when the staging file is not deleted
ClearSessionEndOnSuccess(current, deleted) ==
    IF deleted THEN NoSession ELSE current

\* the finally block: the session reference after the cleanup, deleted
\* telling whether deleteFileIfExists removed the staging file
ClearSessionEnd(current, deleted) == NoSession

----------------------------------------------------------------------------
(* The onWillSaveTextDocument listener and performRename *)

MainLines ==
    { <<"a">>, <<"c">>, <<"a", "/", "b">>, <<" ">>, <<"/", "/", "a">> }

BufferTexts == UNION {[1..n -> MainLines] : n \in 0..(MaxSel + 1)}

\* what is kept of an invocation that is over: its locals are gone
Over(s, reason) ==
    [IdleSave EXCEPT !.pc = "done",
                     !.end = reason,
                     !.missingAtVerify = s.missingAtVerify,
                     !.text = s.text,
                     !.textLines = IF s.countOk THEN 0 ELSE s.textLines,
                     !.blankLines = IF s.countOk THEN 0 ELSE s.blankLines,
                     !.lineCount = IF s.countOk THEN 0 ELSE s.lineCount,
                     !.fileCount = IF s.countOk THEN 0 ELSE s.fileCount,
                     !.planCalls = s.planCalls,
                     !.applyCalls = s.applyCalls]

\* a listener that lets every line count pass
CountMatchesAlways(files, newNames) == TRUE

\* the precondition of planning: one name line per staged file
CountMatches(files, newNames) == Len(files) = Len(newNames)

\* a listener that renames whatever the user answers
ProceedsAlways(proceed) == TRUE

\* the answer to the modal confirmation that lets the rename go on
Proceeds(proceed) == proceed = "Yes"

\* a listener that resets the flag at the end of the try block only
FinishWithoutFinally(h, s, reason) ==
    /\ save' = [save EXCEPT ![h] = Over(s, reason)]
    /\ isProcessingRename' = (reason \notin {"renamed", "nothing_to_rename"})

\* the listener returns or throws: the finally block resets the flag
Finish(h, s, reason) ==
    /\ save' = [save EXCEPT ![h] = Over(s, reason)]
    /\ isProcessingRename' = FALSE

SaveEvent(h) ==
    LET s == save[h]
    IN  /\ s.pc = "idle"
        /\ h > 1 => save[h - 1].pc # "idle"
        /\ UserEvents < MaxEvents
        /\ \E d \in 1..Len(sessions) :
              /\ sessions[d].document
              /\ IF \/ currentSession = NoSession
                    \/ ~sessions[currentSession].document
                    \/ d # currentSession
                 THEN /\ save' = [save EXCEPT ![h] = Over(s, "ignored")]
                      /\ UNCHANGED isProcessingRename
                 ELSE IF isProcessingRename
                 THEN Finish(h, s, "rejected")
                 ELSE /\ save' = [save EXCEPT ![h] =
                             [s EXCEPT !.pc = "verifying", !.sess = currentSession]]
                      /\ isProcessingRename' = TRUE
        /\ UNCHANGED <<caseSensitive, unique, contextAvailable, fs, fsEvents, watched, sessions, currentSession,
                       sessionLock, visibleEditors, cmd, closeEvents, closeClears,
                       workspaceState>>

\* the number of files of session sess that the probes do not find
MissingFiles(sess) ==
    IF sess = NoSession THEN 0
    ELSE Cardinality({i \in 1..Len(sessions[sess].files) :
             ~FileExists(sessions[sess].files[i].fsPath, fs, caseSensitive)})

\* performRename from the reading of the buffer up to the call of
\* validateRenameOperations; text is the buffer as its lines and raw its
\* characters where the invocation keeps them
PerformRenameParse(h, s, raw, text) ==
    LET newNames == GetNewFilenamesFromDocument(text)
        files    == sessions[currentSession].files
        requests == CreateRenameRequests(files, newNames)
        t == [s EXCEPT !.verified = TRUE,
                       !.missingAtVerify = MissingFiles(s.sess),
                       !.sess = currentSession,
                       !.text = raw,
                       !.textLines = Len(text),
                       !.blankLines = Len(SelectSeq(text, IsBlankLine)),
                       !.lineCount = Len(newNames),
                       !.fileCount = Len(files)]
    IN  IF Len(newNames) = 0
        THEN Finish(h, t, "no_names")
        ELSE IF ~CountMatches(files, newNames)
        THEN Finish(h, t, "count_mismatch")
        ELSE IF Len(requests) # Len(files)
        THEN Finish(h, t, "unmapped")
        ELSE /\ save' = [save EXCEPT ![h] =
                    [t EXCEPT !.pc = "planning",
                              !.textLines = 0,
                              !.blankLines = 0,
                              !.countOk = (Len(files) = Len(newNames)),
                              !.planCalls = s.planCalls + 1,
                              !.planFiles = [i \in 1..Len(requests) |->
                                                requests[i].file],
                              !.names = [i \in 1..Len(requests) |->
                                            requests[i].newName]]]
             /\ UNCHANGED isProcessingRename

\* verifySessionFiles answers; on true, performRename runs up to the call of
\* validateRenameOperations
SaveVerified(h) ==
    LET s == save[h]
    IN  /\ s.pc = "verifying"
        /\ IF ~Verify(s.sess, sessions, fs, caseSensitive)
           THEN Finish(h, [s EXCEPT !.missingAtVerify = MissingFiles(s.sess)],
                       "verify_failed")
           ELSE IF currentSession = NoSession
           THEN Finish(h, [s EXCEPT !.verified = TRUE,
                                    !.missingAtVerify = MissingFiles(s.sess)], "cleared")
           ELSE \E text \in BufferTexts : PerformRenameParse(h, s, <<>>, text)
        /\ UNCHANGED <<caseSensitive, unique, contextAvailable, fs, fsEvents, watched, sessions, currentSession,
                       sessionLock, visibleEditors, cmd, closeEvents, closeClears,
                       workspaceState>>

\* validateRenameOperations answers
SavePlan(h) ==
    LET s == save[h]
        r == ValidateRenameOperations(Requests(s.planFiles, s.names), fs, caseSensitive)
        t == [s EXCEPT !.planFs = fs,
                       !.planThrew = r.threw,
                       !.planErrors = r.errors,
                       !.ops = r.operations]
    IN  /\ s.pc = "planning"
        /\ IF r.threw
           THEN Finish(h, t, "validation_error") /\ UNCHANGED visibleEditors
           ELSE IF Len(r.operations) = 0
           THEN IF ClearAwaits
                THEN /\ save' = [save EXCEPT ![h] =
                            [t EXCEPT !.pc = "clearing", !.end = "nothing_to_rename",
                                      !.clearOf = currentSession]]
                     /\ visibleEditors' \in EditorsAfterClearBegin
                     /\ UNCHANGED isProcessingRename
                ELSE Finish(h, t, "nothing_to_rename") /\ UNCHANGED visibleEditors
           ELSE /\ save' = [save EXCEPT ![h] = [t EXCEPT !.pc = "confirming"]]
                /\ UNCHANGED <<isProcessingRename, visibleEditors>>
        /\ UNCHANGED <<caseSensitive, unique, contextAvailable, fs, fsEvents, watched, sessions, currentSession,
                       sessionLock, cmd, closeEvents, closeClears, workspaceState>>

\* the modal confirmation is answered
SaveConfirm(h) ==
    LET s == save[h]
    IN  /\ s.pc = "confirming"
        /\ \E proceed \in {"Yes", "No"} :
              IF Proceeds(proceed)
              THEN /\ save' = [save EXCEPT ![h] =
                          [s EXCEPT !.pc = "exec", !.confirmed = (proceed = "Yes")]]
                   /\ UNCHANGED isProcessingRename
              ELSE Finish(h, s, "declined")
        /\ UNCHANGED <<caseSensitive, unique, contextAvailable, fs, fsEvents, watched, sessions, currentSession,
                       sessionLock, visibleEditors, cmd, closeEvents, closeClears,
                       workspaceState>>

\* a listener that clears the session after every batch, renamed or not
ClearsSessionAlways(result) == TRUE

\* a listener that keeps the session after every batch
ClearsSessionNever(result) == FALSE

\* the condition under which performRename clears the session after the batch
ClearsSession(result) == result.succeeded > 0

\* renameWithWorkspaceEdit has returned: the result is reported and, when a
\* file was renamed, the session is cleared
SaveReport(h) ==
    LET s == save[h]
    IN  /\ s.pc = "executed"
        /\ IF ClearsSession(s.result)
           THEN IF ClearAwaits
                THEN /\ save' = [save EXCEPT ![h] =
                            [s EXCEPT !.pc = "clearing", !.end = "renamed",
                                      !.clearOf = currentSession,
                                      !.anchorOpen = {}, !.anchorTried = <<>>]]
                     /\ visibleEditors' \in EditorsAfterClearBegin
                     /\ UNCHANGED isProcessingRename
                ELSE Finish(h, s, "renamed") /\ UNCHANGED visibleEditors
           ELSE Finish(h, s, "rename_failed") /\ UNCHANGED visibleEditors
        /\ UNCHANGED <<caseSensitive, unique, contextAvailable, fs, fsEvents, watched, sessions, currentSession,
                       sessionLock, cmd, closeEvents, closeClears, workspaceState>>

\* the cleanup I/O of the listener's clearSession is over
SaveCleared(h) ==
    LET s == save[h]
    IN  /\ s.pc = "clearing"
        /\ \E deleted \in BOOLEAN :
              currentSession' = ClearSessionEnd(currentSession, deleted)
        /\ Finish(h, s, s.end)
        /\ UNCHANGED <<caseSensitive, unique, contextAvailable, fs, fsEvents, watched, sessions, sessionLock,
                       visibleEditors, cmd, closeEvents, closeClears, workspaceState>>

----------------------------------------------------------------------------
(* The extension.renameBatch command: execute, createSession and           *)
(* openSessionEditor                                                       *)

\* a probe loop that takes every selected entry
ExistingOfAll(selectedFiles, fsys, cs) == selectedFiles

\* the selected entries fileExists finds, in selection order
RECURSIVE ExistingOf(_, _, _)
ExistingOf(selectedFiles, fsys, cs) ==
    IF selectedFiles = <<>> THEN <<>>
    ELSE IF FileExists(Head(selectedFiles), fsys, cs)
    THEN <<Head(selectedFiles)>> \o ExistingOf(Tail(selectedFiles), fsys, cs)
    ELSE ExistingOf(Tail(selectedFiles), fsys, cs)

\* a guard that lets every call pass
SessionBusyNever(lock) == FALSE

\* the guard of createSession: a session operation is in progress
SessionBusy(lock) == lock

\* the catch block of execute: the error is shown and clearSession is called
CmdFail(c, t, reason) ==
    /\ cmd' = [cmd EXCEPT ![c] =
           IF ClearAwaits
           THEN [t EXCEPT !.pc = "failing", !.end = reason, !.clearOf = currentSession]
           ELSE [IdleCmd EXCEPT !.pc = "done", !.end = reason]]
    /\ visibleEditors' \in EditorsAfterClearBegin

CmdStart(c) ==
    LET t == cmd[c]
    IN  /\ t.pc = "idle"
        /\ c > 1 => cmd[c - 1].pc # "idle"
        /\ UserEvents < MaxEvents
        /\ \E sel \in SelectionsOf(watched) :
              IF Len(sel) = 0
              THEN /\ cmd' = [cmd EXCEPT ![c] =
                          [IdleCmd EXCEPT !.pc = "done", !.end = "no_selection"]]
                   /\ UNCHANGED <<sessionLock, visibleEditors>>
              ELSE IF SessionBusy(sessionLock)
              THEN CmdFail(c, [t EXCEPT !.sel = sel], "busy") /\ UNCHANGED sessionLock
              ELSE /\ sessionLock' = TRUE
                   /\ cmd' = [cmd EXCEPT ![c] =
                          [t EXCEPT !.sel = sel,
                                    !.clearOf = currentSession,
                                    !.pc = IF ClearAwaits THEN "replacing" ELSE "probing"]]
                   /\ visibleEditors' \in EditorsAfterClearBegin
        /\ UNCHANGED <<caseSensitive, unique, contextAvailable, fs, fsEvents, watched, sessions, currentSession,
                       isProcessingRename, save, closeEvents, closeClears,
                       workspaceState>>

\* the cleanup I/O of createSession's clearSession is over
CmdReplaced(c) ==
    LET t == cmd[c]
    IN  /\ t.pc = "replacing"
        /\ \E deleted \in BOOLEAN :
              currentSession' = ClearSessionEnd(currentSession, deleted)
        /\ cmd' = [cmd EXCEPT ![c] = [t EXCEPT !.pc = "probing", !.clearOf = NoSession]]
        /\ UNCHANGED <<caseSensitive, unique, contextAvailable, fs, fsEvents, watched, sessions, sessionLock,
                       isProcessingRename, visibleEditors, save, closeEvents,
                       closeClears, workspaceState>>

\* the selected entries are probed and the session is stored
CmdCreate(c) ==
    LET t == cmd[c]
        files == StageFiles(ExistingOf(t.sel, fs, caseSensitive))
    IN  /\ t.pc = "probing"
        /\ sessionLock' = FALSE
        /\ IF Len(files) = 0
           THEN /\ CmdFail(c, t, "no_valid_files")
                /\ UNCHANGED <<sessions, currentSession>>
           ELSE /\ sessions' = Append(sessions, [files |-> files, document |-> FALSE])
                /\ currentSession' = Len(sessions) + 1
                /\ cmd' = [cmd EXCEPT ![c] =
                       [t EXCEPT !.pc = "opening", !.sess = Len(sessions) + 1]]
                /\ UNCHANGED visibleEditors
        /\ UNCHANGED <<caseSensitive, unique, contextAvailable, fs, fsEvents, watched, isProcessingRename, save,
                       closeEvents, closeClears, workspaceState>>

\* openSessionEditor: the staging file is written and opened as a document
CmdOpen(c) ==
    LET t == cmd[c]
    IN  /\ t.pc = "opening"
        /\ \E ok \in BOOLEAN :
              IF ok /\ currentSession = t.sess
              THEN /\ sessions' = [sessions EXCEPT ![currentSession].document = TRUE]
                   /\ cmd' = [cmd EXCEPT ![c] = [t EXCEPT !.pc = "showing"]]
                   /\ UNCHANGED visibleEditors
              ELSE /\ CmdFail(c, t, IF ok THEN "unexpectedly_cleared" ELSE "open_failed")
                   /\ UNCHANGED sessions
        /\ UNCHANGED <<caseSensitive, unique, contextAvailable, fs, fsEvents, watched, currentSession, sessionLock,
                       isProcessingRename, save, closeEvents, closeClears,
                       workspaceState>>

\* openSessionEditor: the document is shown and the header is inserted
CmdShow(c) ==
    LET t == cmd[c]
    IN  /\ t.pc = "showing"
        /\ \E ok \in BOOLEAN :
              IF ok
              THEN /\ visibleEditors' = visibleEditors \cup {t.sess}
                   /\ cmd' = [cmd EXCEPT ![c] =
                          [IdleCmd EXCEPT !.pc = "done", !.end = "opened", !.sess = t.sess]]
              ELSE CmdFail(c, t, "show_failed")
        /\ UNCHANGED <<caseSensitive, unique, contextAvailable, fs, fsEvents, watched, sessions, currentSession,
                       sessionLock, isProcessingRename, save, closeEvents, closeClears,
                       workspaceState>>

\* the cleanup I/O of the catch block's clearSession is over
CmdFailed(c) ==
    LET t == cmd[c]
    IN  /\ t.pc = "failing"
        /\ \E deleted \in BOOLEAN :
              currentSession' = ClearSessionEnd(currentSession, deleted)
        /\ cmd' = [cmd EXCEPT ![c] = [IdleCmd EXCEPT !.pc = "done", !.end = t.end]]
        /\ UNCHANGED <<caseSensitive, unique, contextAvailable, fs, fsEvents, watched, sessions, sessionLock,
                       isProcessingRename, visibleEditors, save, closeEvents,
                       closeClears, workspaceState>>

----------------------------------------------------------------------------
(* The onDidChangeVisibleTextEditors listener.  The event is raised when a *)
(* staging editor stops being visible (closed is a session) or when some   *)
(* other editor changes (closed is NoSession).                             *)

CloseEvent ==
    /\ closeEvents < MaxCloses
    /\ UserEvents < MaxEvents
    /\ closeEvents' = closeEvents + 1
    /\ \E closed \in visibleEditors \cup {NoSession} :
          LET editors == visibleEditors \ {closed}
          IN  /\ visibleEditors' = editors
              /\ closeClears' =
                     IF /\ currentSession # NoSession
                        /\ sessions[currentSession].document
                        /\ currentSession \notin editors
                        /\ ~isProcessingRename
                     THEN Append(closeClears, currentSession)
                     ELSE closeClears
    /\ UNCHANGED <<caseSensitive, unique, contextAvailable, fs, fsEvents, watched, sessions, currentSession,
                   sessionLock, isProcessingRename, save, cmd, workspaceState>>

\* the cleanup I/O of the listener's clearSession is over
CloseCleared ==
    /\ closeClears # <<>>
    /\ \E i \in 1..Len(closeClears) :
          closeClears' = [j \in 1..(Len(closeClears) - 1) |->
                             IF j < i THEN closeClears[j] ELSE closeClears[j + 1]]
    /\ \E deleted \in BOOLEAN :
          currentSession' = ClearSessionEnd(currentSession, deleted)
    /\ UNCHANGED <<caseSensitive, unique, contextAvailable, fs, fsEvents, watched, sessions, sessionLock,
                   isProcessingRename, visibleEditors, save, cmd, closeEvents,
                   workspaceState>>

----------------------------------------------------------------------------
(* Spec: the extension after activation, its user and its environment *)

MainPaths == { <<"/", "a">> }

Init ==
    /\ caseSensitive = TRUE
    /\ fs = MainPaths
    /\ fsEvents = 0
    /\ watched = MainPaths
    /\ sessions = <<>>
    /\ currentSession = NoSession
    /\ sessionLock = FALSE
    /\ isProcessingRename = FALSE
    /\ visibleEditors = {}
    /\ save = [h \in 1..MaxSaves |-> IdleSave]
    /\ cmd = [c \in 1..MaxCmds |-> IdleCmd]
    /\ closeEvents = 0
    /\ closeClears = <<>>
    /\ contextAvailable = FALSE
    /\ workspaceState = NoHints
    /\ unique = IdleUnique

Next ==
    \/ FsEvent
    \/ CloseEvent
    \/ CloseCleared
    \/ \E c \in 1..MaxCmds : CmdStart(c)
    \/ \E c \in 1..MaxCmds : CmdReplaced(c)
    \/ \E c \in 1..MaxCmds : CmdCreate(c)
    \/ \E c \in 1..MaxCmds : CmdOpen(c)
    \/ \E c \in 1..MaxCmds : CmdShow(c)
    \/ \E c \in 1..MaxCmds : CmdFailed(c)
    \/ \E h \in 1..MaxSaves : SaveEvent(h)
    \/ \E h \in 1..MaxSaves : SaveVerified(h)
    \/ \E h \in 1..MaxSaves : SavePlan(h)
    \/ \E h \in 1..MaxSaves : SaveConfirm(h)
    \/ \E h \in 1..MaxSaves : XEnter(h)
    \/ \E h \in 1..MaxSaves : XApply(h)
    \/ \E h \in 1..MaxSaves : XAnchor(h)
    \/ \E h \in 1..MaxSaves : SaveReport(h)
    \/ \E h \in 1..MaxSaves : SaveCleared(h)

Spec == Init /\ [][Next]_vars

----------------------------------------------------------------------------
(* Properties of the save listener, checked under Spec *)

InFlight(h) ==
    save[h].pc \in {"verifying", "planning", "confirming", "exec", "applying",
                    "anchoring", "executed", "clearing"}

\* C1: at most one commit (verify, plan, execute) is in flight at any
\* moment: a save that arrives while a commit runs is rejected without
\* running verify, plan or applyEdit, the third and later ones included.
C1_OneCommitInFlight == Cardinality({h \in Handlers : InFlight(h)}) <= 1

\* C3: when the number of name lines differs from the number of staged
\* files, the commit ends before planning: validateRenameOperations and
\* applyEdit are not called.
C3_CountMismatchStopsCommit ==
    \A h \in Handlers :
        (save[h].fileCount > 0 /\ save[h].lineCount # save[h].fileCount) =>
            /\ save[h].pc = "done"
            /\ save[h].end \in {"count_mismatch", "no_names"}
            /\ save[h].planCalls = 0
            /\ save[h].applyCalls = 0

C3_Witness ==
    \E h \in Handlers :
        /\ save[h].pc = "done"
        /\ save[h].end = "count_mismatch"
        /\ save[h].lineCount > save[h].fileCount

\* C4: applyEdit is invoked in a commit only if, in that commit, verify
\* returned true, the line count matched, the plan came back without error
\* and with at least one operation, and the user confirmed; a commit that
\* ends otherwise has not invoked it.
C4_ApplyEditOnlyAfterAllChecks ==
    \A h \in Handlers :
        /\ (save[h].pc # "done" /\ save[h].applyCalls > 0) =>
               /\ save[h].verified
               /\ save[h].countOk
               /\ save[h].planCalls > 0
               /\ ~save[h].planThrew
               /\ Len(save[h].ops) > 0
               /\ save[h].confirmed
        /\ (save[h].pc = "done" /\ save[h].end \notin {"renamed", "rename_failed"}) =>
               save[h].applyCalls = 0

C4_Witness ==
    \E h \in Handlers :
        /\ save[h].pc = "applying"
        /\ save[h].verified
        /\ save[h].confirmed

----------------------------------------------------------------------------
(* Properties of the planner's checks, checked under SpecCore *)

DestinationOf(r) == PathJoin(r.file.basepath, r.newName)

\* the requests of a planned batch that ask for a change: the line is not
\* blank and names another path than the staged one
ChangedIndices(h) ==
    {i \in 1..Len(PlannedRequests(h)) :
        /\ Trim(PlannedRequests(h)[i].newName) # <<>>
        /\ DestinationOf(PlannedRequests(h)[i]) # PlannedRequests(h)[i].file.fsPath}

\* the requests of a planned batch whose proposed name is the current name
SameNameIndices(h) ==
    {i \in 1..Len(PlannedRequests(h)) :
        PlannedRequests(h)[i].newName = PlannedRequests(h)[i].file.basename}

ErrorRank(h, i) == Cardinality({j \in InvalidIndices(h) : j <= i})

\* C13: for a name holding "/" or "\" the validator returns false; plan
\* records the invalid-filename error of that request and goes on with the
\* requests after it, whose errors are reported as well.
C13_SeparatorRejectedScanGoesOn ==
    \A h \in Handlers : Planned(h) =>
        LET rs == PlannedRequests(h)
        IN  \A i \in 1..Len(rs) :
                (\E k \in 1..Len(rs[i].newName) : rs[i].newName[k] \in {"/", "\\"}) =>
                    /\ ~ValidateFileName(rs[i].newName)
                    /\ save[h].planThrew
                    /\ Len(save[h].planErrors) >= ErrorRank(h, i)
                    /\ save[h].planErrors[ErrorRank(h, i)] =
                           <<"Invalid filename", rs[i].newName>>
                    /\ \A j \in InvalidIndices(h) :
                           j > i =>
                               /\ Len(save[h].planErrors) >= ErrorRank(h, j)
                               /\ save[h].planErrors[ErrorRank(h, j)][2] =
                                      ErrorSubject(rs[j], save[h].planFs, caseSensitive)

C13_Witness ==
    \E h \in Handlers :
        /\ Planned(h)
        /\ Len(save[h].names) = 2
        /\ save[h].names[1] = <<"b", "\\">>
        /\ save[h].names[2] = <<"a", "/", "b">>
        /\ Len(save[h].planErrors) = 2

\* C14: the validator returns false for every empty or whitespace-only name
\* and for every name that holds a path separator.
C14_ValidatorRejectsBlankNames ==
    \A h \in Handlers : Planned(h) =>
        \A i \in 1..Len(save[h].names) :
            (Trim(save[h].names[i]) = <<>> \/ HasSeparator(save[h].names[i])) =>
                ~ValidateFileName(save[h].names[i])

\* the requests of a planned batch that change nothing but letter case
CaseOnlyIndices(h) ==
    {i \in ChangedIndices(h) :
        LET r == PlannedRequests(h)[i]
        IN  /\ Len(DestinationOf(r)) = Len(r.file.fsPath)
            /\ \A k \in 1..Len(r.file.fsPath) :
                   LowerChar(DestinationOf(r)[k]) = LowerChar(r.file.fsPath[k])}

\* C15: a request whose destination differs from its existing source in
\* letter case only is accepted: it raises no collision error and, when the
\* batch is accepted, its operation is in the plan, also when the existence
\* probe reports the destination as existing.
C15_CaseOnlyAccepted ==
    \A h \in Handlers : Planned(h) =>
        LET rs   == PlannedRequests(h)
            co   == {i \in CaseOnlyIndices(h) :
                        FileExists(rs[i].file.fsPath, save[h].planFs, caseSensitive)}
            bad  == InvalidIndices(h) \ co
        IN  /\ Len(save[h].planErrors) = Cardinality(bad)
            /\ \A k \in 1..Len(save[h].planErrors) : \A i \in co :
                   save[h].planErrors[k] # <<"Target already exists", DestinationOf(rs[i])>>
                       \/ \E j \in bad : DestinationOf(rs[j]) = DestinationOf(rs[i])
            /\ bad = {} =>
                   \A i \in co : \E k \in 1..Len(save[h].ops) :
                       save[h].ops[k] = [from |-> rs[i].file.fsPath, to |-> DestinationOf(rs[i])]

C15_Witness ==
    \E h \in Handlers :
        /\ Planned(h)
        /\ ~caseSensitive
        /\ save[h].names = << <<"A">> >>
        /\ FileExists(<<"/", "A">>, save[h].planFs, caseSensitive)
        /\ save[h].ops = << [from |-> <<"/", "a">>, to |-> <<"/", "A">>] >>

\* the requests of a planned batch whose destination is taken by something
\* that is not a case variant of their own, existing, source
CollidingIndices(h) ==
    {i \in ChangedIndices(h) \ CaseOnlyIndices(h) :
        LET r == PlannedRequests(h)[i]
        IN  /\ ~HasSeparator(r.newName)
            /\ FileExists(r.file.fsPath, save[h].planFs, caseSensitive)
            /\ FileExists(DestinationOf(r), save[h].planFs, caseSensitive)}

\* C16: a request whose destination exists and is no case variant of its own
\* source is rejected with a collision error naming the destination; the
\* batch yields no operation and nothing is renamed (a swap of two staged
\* names is such a batch).
C16_CollisionRejected ==
    \A h \in Handlers : Planned(h) =>
        LET rs == PlannedRequests(h)
        IN  \A i \in CollidingIndices(h) :
                /\ save[h].planThrew
                /\ save[h].ops = <<>>
                /\ Len(save[h].planErrors) >= ErrorRank(h, i)
                /\ save[h].planErrors[ErrorRank(h, i)] =
                       <<"Target already exists", DestinationOf(rs[i])>>
                /\ save[h].pc = "rejected"
                /\ save[h].applyCalls = 0
                /\ save[h].applied = <<>>

C16_Witness ==
    \E h \in Handlers :
        /\ Planned(h)
        /\ Len(save[h].planFiles) = 2
        /\ save[h].planFiles[1].fsPath = <<"/", "a">>
        /\ save[h].planFiles[2].fsPath = <<"/", "b">>
        /\ save[h].names = << <<"b">>, <<"a">> >>
        /\ save[h].planErrors = << <<"Target already exists", <<"/", "b">> >>,
                                   <<"Target already exists", <<"/", "a">> >> >>
        /\ save[h].pc = "rejected"

----------------------------------------------------------------------------
(* SpecCommit: one commit of a staged selection, from the moment the save  *)
(* listener has passed its guard to the end of performRename, over the     *)
(* file systems and selections of SpecCore.                                *)

InitCommit ==
    /\ caseSensitive \in BOOLEAN
    /\ fs \in FsStates(caseSensitive)
    /\ fsEvents = 0
    /\ watched = FsUniverse
    /\ \E sel \in SelectionsOf(FsUniverse) :
          /\ Len(sel) > 0
          /\ \A i \in 1..Len(sel) : sel[i] \in fs
          /\ sessions = <<[files |-> StageFiles(sel), document |-> TRUE]>>
    /\ currentSession = 1
    /\ sessionLock = FALSE
    /\ isProcessingRename = TRUE
    /\ visibleEditors = {1}
    /\ save = [h \in 1..MaxSaves |->
                 IF h = 1 THEN [IdleSave EXCEPT !.pc = "verifying", !.sess = 1]
                 ELSE IdleSave]
    /\ cmd = [c \in 1..MaxCmds |-> IdleCmd]
    /\ closeEvents = 0
    /\ closeClears = <<>>
    /\ contextAvailable = FALSE
    /\ workspaceState = NoHints
    /\ unique = IdleUnique

NextCommit ==
    \/ FsEvent
    \/ \E h \in 1..MaxSaves : SaveVerified(h)
    \/ \E h \in 1..MaxSaves : SavePlan(h)
    \/ \E h \in 1..MaxSaves : SaveConfirm(h)
    \/ \E h \in 1..MaxSaves : XEnter(h)
    \/ \E h \in 1..MaxSaves : XApply(h)
    \/ \E h \in 1..MaxSaves : XAnchor(h)
    \/ \E h \in 1..MaxSaves : SaveReport(h)
    \/ \E h \in 1..MaxSaves : SaveCleared(h)

SpecCommit == InitCommit /\ [][NextCommit]_vars

----------------------------------------------------------------------------
(* Properties of one commit, checked under SpecCommit *)

\* C17: blank means no change: when the buffer holds one line per staged
\* file and the line of some file is left blank, the commit raises no error
\* for it and goes on to apply the other lines to their own files.
C17_BlankLineMeansNoChange ==
    \A h \in Handlers :
        (/\ save[h].fileCount > 1
         /\ save[h].textLines = save[h].fileCount
         /\ save[h].blankLines >= 1
         /\ save[h].lineCount = save[h].textLines - save[h].blankLines
         /\ save[h].lineCount >= 1) =>
            ~(save[h].pc = "done" /\ save[h].end = "count_mismatch")

\* C18: verify returns true exactly when every staged file of the live
\* session still exists; a commit that starts when a staged file has
\* vanished fails before planning and never calls applyEdit.
C18_VerifyGuardsCommit ==
    \A h \in Handlers :
        /\ save[h].verified => save[h].missingAtVerify = 0
        /\ save[h].missingAtVerify > 0 =>
               /\ save[h].pc = "done"
               /\ save[h].end = "verify_failed"
        /\ (save[h].pc = "done" /\ save[h].end = "verify_failed") =>
               /\ save[h].missingAtVerify > 0
               /\ save[h].planCalls = 0
               /\ save[h].applyCalls = 0

C18_Witness ==
    \E h \in Handlers :
        /\ save[h].pc = "done"
        /\ save[h].end = "verify_failed"
        /\ save[h].missingAtVerify = 1
        /\ Len(sessions[1].files) = 2

----------------------------------------------------------------------------
(* SpecCreate: the command alone, invoked on selections of the file        *)
(* systems of SpecCore while other processes change the files.             *)

\* the entries the explorer shows: two names that differ in case only and
\* one in another directory
CreatePaths == { <<"/", "a">>, <<"/", "A">>, <<"/", "d", "/", "a">> }

InitCreate ==
    /\ caseSensitive \in BOOLEAN
    /\ fs \in {s \in FsStates(caseSensitive) : s \subseteq CreatePaths}
    /\ fsEvents = 0
    /\ watched = CreatePaths
    /\ sessions = <<>>
    /\ currentSession = NoSession
    /\ sessionLock = FALSE
    /\ isProcessingRename = FALSE
    /\ visibleEditors = {}
    /\ save = [h \in 1..MaxSaves |-> IdleSave]
    /\ cmd = [c \in 1..MaxCmds |-> IdleCmd]
    /\ closeEvents = 0
    /\ closeClears = <<>>
    /\ contextAvailable = FALSE
    /\ workspaceState = NoHints
    /\ unique = IdleUnique

NextCreate ==
    \/ FsEvent
    \/ \E c \in 1..MaxCmds : CmdStart(c)
    \/ \E c \in 1..MaxCmds : CmdReplaced(c)
    \/ \E c \in 1..MaxCmds : CmdCreate(c)
    \/ \E c \in 1..MaxCmds : CmdOpen(c)
    \/ \E c \in 1..MaxCmds : CmdShow(c)
    \/ \E c \in 1..MaxCmds : CmdFailed(c)

SpecCreate == InitCreate /\ [][NextCreate]_vars

----------------------------------------------------------------------------
(* Properties of createSession, checked under SpecCreate *)

Commands == 1..MaxCmds

\* the create call of invocation c is past the guard and has not returned
InCreate(c) == cmd[c].pc \in {"replacing", "probing"}

\* the step in which the create call of invocation c returns or throws
CreateReturns(c) ==
    LET Exists(p) == FileExists(p, fs, caseSensitive)
        expected  == SelectSeq(cmd[c].sel, Exists)
    IN  (cmd[c].pc = "probing" /\ cmd'[c].pc # "probing") =>
            IF expected = <<>>
            THEN /\ cmd'[c].pc = "done"
                 /\ cmd'[c].end = "no_valid_files"
                 /\ currentSession' = NoSession
                 /\ sessions' = sessions
            ELSE /\ cmd'[c].pc = "opening"
                 /\ Len(sessions') = Len(sessions) + 1
                 /\ currentSession' = Len(sessions')
                 /\ cmd'[c].sess = currentSession'
                 /\ LET files == sessions'[currentSession'].files
                    IN  /\ Len(files) = Len(expected)
                        /\ \A i \in 1..Len(files) :
                               /\ files[i].fsPath = expected[i]
                               /\ files[i].basepath \o files[i].basename = expected[i]
                               /\ ~Includes(files[i].basename, "/")

\* C19: create stages exactly the selected entries that exist when it
\* probes them, in selection order; when none exists it fails with the
\* no-valid-files error and no session is live afterwards.
C19_CreateStagesExisting == [][\A c \in Commands : CreateReturns(c)]_vars

C19_Witness ==
    \E c \in Commands :
        /\ cmd[c].pc = "opening"
        /\ Len(cmd[c].sel) = 2
        /\ Len(sessions[cmd[c].sess].files) = 1
        /\ sessions[cmd[c].sess].files[1].fsPath = cmd[c].sel[2]

\* the step in which invocation c calls create while another call is inside
CreateWhileBusy(c) ==
    (/\ cmd[c].pc = "idle"
     /\ cmd'[c].pc # "idle"
     /\ cmd'[c].end # "no_selection"
     /\ \E d \in Commands \ {c} : InCreate(d)) =>
        /\ cmd'[c].end = "busy"
        /\ cmd'[c].pc \in {"failing", "done"}
        /\ sessions' = sessions
        /\ currentSession' = currentSession
        /\ sessionLock' = sessionLock

\* C20: at most one create call is past the guard at any moment, and a
\* create call that starts while another is in progress fails with the
\* session-busy error and stages nothing.
C20_CreateSerialized ==
    /\ [](Cardinality({c \in Commands : InCreate(c)}) <= 1)
    /\ [](sessionLock <=> \E c \in Commands : InCreate(c))
    /\ [][\A c \in Commands : CreateWhileBusy(c)]_vars

C20_Witness ==
    \E c, d \in Commands :
        /\ c # d
        /\ InCreate(c)
        /\ cmd[d].pc = "done"
        /\ cmd[d].end = "busy"

----------------------------------------------------------------------------
(* Properties of the session's staged files *)

\* C21: every staged file of the live session has path = directory + name:
\* after createSession and after every updateSessionAfterRename, which
\* rewrites the three fields together from the new path.
C21_PathIsDirectoryPlusName ==
    \A i \in 1..Len(LiveFiles) :
        /\ LiveFiles[i].fsPath = LiveFiles[i].basepath \o LiveFiles[i].basename
        /\ ~Includes(LiveFiles[i].basename, "/")
        /\ Len(LiveFiles[i].basename) > 0

C21_Witness ==
    \E h \in Handlers :
        /\ save[h].outcome = "ok"
        /\ Len(save[h].ops) = 2
        /\ \E i \in 1..Len(LiveFiles) :
               /\ LiveFiles[i].fsPath = save[h].ops[2].to
               /\ LiveFiles[i].basepath # save[h].planFiles[1].basepath

\* the step changes the staged files of session d
StagedFilesChange(d) == sessions'[d].files # sessions[d].files

\* the step is the one in which applyEdit reports success to invocation h
ApplySucceeds(h) == save[h].pc = "applying" /\ save'[h].outcome = "ok"

\* C22: the staged files of a session change only in the step in which
\* applyEdit reports success; verify, parsing, plan and a failed execute
\* leave them as they are, the number and the order of the entries never
\* change, and an entry changes only if its path was the source of an
\* operation (it then holds the destination of an operation).
C22_OnlyExecuteWritesStagedFiles ==
    [][\A d \in 1..Len(sessions) :
          /\ Len(sessions') >= Len(sessions)
          /\ Len(sessions'[d].files) = Len(sessions[d].files)
          /\ StagedFilesChange(d) =>
                \E h \in Handlers :
                    /\ ApplySucceeds(h)
                    /\ d = currentSession
                    /\ \A i \in 1..Len(sessions[d].files) :
                           sessions'[d].files[i] # sessions[d].files[i] =>
                               \E j, k \in 1..Len(save[h].ops) :
                                   /\ save[h].ops[j].from = sessions[d].files[i].fsPath
                                   /\ save[h].ops[k].to = sessions'[d].files[i].fsPath]_vars

C22_Witness ==
    \E h \in Handlers :
        /\ save[h].outcome = "ok"
        /\ Len(save[h].planFiles) = 2
        /\ Len(LiveFiles) = 2
        /\ LiveFiles[1] = save[h].planFiles[1]
        /\ LiveFiles[2] # save[h].planFiles[2]

----------------------------------------------------------------------------
(* Properties of clearSession *)

\* the step in which the clearSession call of listener invocation h returns
SaveClearEnds(h) == save[h].pc = "clearing" /\ save'[h].pc # "clearing"

\* the step in which the clearSession call of command invocation c returns
CmdClearEnds(c) ==
    cmd[c].pc \in {"replacing", "failing"} /\ cmd'[c].pc # cmd[c].pc

\* C23: every clearSession call ends with no live session and returns
\* normally to its caller, whether or not the close command threw and
\* whether or not the staging file was deleted: the listener ends with the
\* outcome it had reached, createSession goes on to probe the selection and
\* the catch block of the command ends with the error it was showing.
C23_ClearAlwaysDropsSession ==
    [][/\ \A h \in Handlers :
              SaveClearEnds(h) =>
                  /\ currentSession' = NoSession
                  /\ save'[h].pc = "done"
                  /\ save'[h].end = save[h].end
                  /\ save[h].end \in {"renamed", "nothing_to_rename"}
       /\ \A c \in 1..MaxCmds :
              CmdClearEnds(c) =>
                  /\ currentSession' = NoSession
                  /\ IF cmd[c].pc = "replacing"
                     THEN cmd'[c].pc = "probing"
                     ELSE cmd'[c].pc = "done" /\ cmd'[c].end = cmd[c].end
       /\ Len(closeClears') < Len(closeClears) => currentSession' = NoSession]_vars

\* a commit has ended with the session cleared although the close command
\* threw and left the staging editor open
C23_Witness ==
    \E h \in Handlers :
        /\ save[h].pc = "done"
        /\ save[h].end = "renamed"
        /\ currentSession = NoSession
        /\ visibleEditors # {}

----------------------------------------------------------------------------
(* SpecClose: a staged session whose staging editor is visible, with or    *)
(* without a commit that has just taken the flag; the user closes editors. *)
(* Every continuation of a handler that is waiting for I/O or for the      *)
(* answer to the modal dialog is eventually run; closing is not forced.    *)

ClosePaths == { <<"/", "a">>, <<"/", "b">> }

InitClose ==
    /\ caseSensitive = TRUE
    /\ fs = ClosePaths
    /\ fsEvents = 0
    /\ watched = ClosePaths
    /\ \E sel \in SelectionsOf(ClosePaths) :
          /\ Len(sel) > 0
          /\ sessions = <<[files |-> StageFiles(sel), document |-> TRUE]>>
    /\ currentSession = 1
    /\ sessionLock = FALSE
    /\ isProcessingRename \in BOOLEAN
    /\ visibleEditors = {1}
    /\ save = [h \in 1..MaxSaves |->
                 IF h = 1 /\ isProcessingRename
                 THEN [IdleSave EXCEPT !.pc = "verifying", !.sess = 1]
                 ELSE IdleSave]
    /\ cmd = [c \in 1..MaxCmds |-> IdleCmd]
    /\ closeEvents = 0
    /\ closeClears = <<>>
    /\ contextAvailable = FALSE
    /\ workspaceState = NoHints
    /\ unique = IdleUnique

NextClose ==
    \/ CloseEvent
    \/ CloseCleared
    \/ \E h \in 1..MaxSaves : SaveVerified(h)
    \/ \E h \in 1..MaxSaves : SavePlan(h)
    \/ \E h \in 1..MaxSaves : SaveConfirm(h)
    \/ \E h \in 1..MaxSaves : XEnter(h)
    \/ \E h \in 1..MaxSaves : XApply(h)
    \/ \E h \in 1..MaxSaves : XAnchor(h)
    \/ \E h \in 1..MaxSaves : SaveReport(h)
    \/ \E h \in 1..MaxSaves : SaveCleared(h)

SpecClose ==
    /\ InitClose
    /\ [][NextClose]_vars
    /\ WF_vars(CloseCleared)
    /\ WF_vars(\E h \in 1..MaxSaves : SaveVerified(h))
    /\ WF_vars(\E h \in 1..MaxSaves : SavePlan(h))
    /\ WF_vars(\E h \in 1..MaxSaves : SaveConfirm(h))
    /\ WF_vars(\E h \in 1..MaxSaves : XEnter(h))
    /\ WF_vars(\E h \in 1..MaxSaves : XApply(h))
    /\ WF_vars(\E h \in 1..MaxSaves : XAnchor(h))
    /\ WF_vars(\E h \in 1..MaxSaves : SaveReport(h))
    /\ WF_vars(\E h \in 1..MaxSaves : SaveCleared(h))

\* the session is live and its staging editor is not visible
SurfaceClosed == currentSession # NoSession /\ currentSession \notin visibleEditors

\* C24: whenever the staging editor of the live session has stopped being
\* visible, the session is eventually cleared, whether or not a commit was
\* in flight when the editor was closed.
C24_ClosedSessionEventuallyEmpty == SurfaceClosed ~> (currentSession = NoSession)

----------------------------------------------------------------------------
(* SpecLife: one staged file in a visible staging editor; the user saves   *)
(* the buffer, again and again.  Every continuation of a handler that is   *)
(* waiting for I/O or for the answer to the modal dialog is eventually     *)
(* run; saving is not forced.                                              *)

InitLife ==
    /\ caseSensitive = TRUE
    /\ fs = MainPaths
    /\ fsEvents = 0
    /\ watched = MainPaths
    /\ sessions = <<[files |-> StageFiles(<< <<"/", "a">> >>), document |-> TRUE]>>
    /\ currentSession = 1
    /\ sessionLock = FALSE
    /\ isProcessingRename = FALSE
    /\ visibleEditors = {1}
    /\ save = [h \in 1..MaxSaves |-> IdleSave]
    /\ cmd = [c \in 1..MaxCmds |-> IdleCmd]
    /\ closeEvents = 0
    /\ closeClears = <<>>
    /\ contextAvailable = FALSE
    /\ workspaceState = NoHints
    /\ unique = IdleUnique

NextLife ==
    \/ \E h \in 1..MaxSaves : SaveEvent(h)
    \/ \E h \in 1..MaxSaves : SaveVerified(h)
    \/ \E h \in 1..MaxSaves : SavePlan(h)
    \/ \E h \in 1..MaxSaves : SaveConfirm(h)
    \/ \E h \in 1..MaxSaves : XEnter(h)
    \/ \E h \in 1..MaxSaves : XApply(h)
    \/ \E h \in 1..MaxSaves : XAnchor(h)
    \/ \E h \in 1..MaxSaves : SaveReport(h)
    \/ \E h \in 1..MaxSaves : SaveCleared(h)

SpecLife ==
    /\ InitLife
    /\ [][NextLife]_vars
    /\ WF_vars(\E h \in 1..MaxSaves : SaveVerified(h))
    /\ WF_vars(\E h \in 1..MaxSaves : SavePlan(h))
    /\ WF_vars(\E h \in 1..MaxSaves : SaveConfirm(h))
    /\ WF_vars(\E h \in 1..MaxSaves : XEnter(h))
    /\ WF_vars(\E h \in 1..MaxSaves : XApply(h))
    /\ WF_vars(\E h \in 1..MaxSaves : XAnchor(h))
    /\ WF_vars(\E h \in 1..MaxSaves : SaveReport(h))
    /\ WF_vars(\E h \in 1..MaxSaves : SaveCleared(h))

\* the commit of invocation h has ended after a successful transaction
Renamed(h) == save[h].pc = "done" /\ save[h].end = "renamed"

\* the step in which the listener is invoked as invocation h
SaveArrives(h) == save[h].pc = "idle" /\ save'[h].pc # "idle"

\* C25: a commit whose transaction succeeded eventually ends with the
\* session cleared; from then on there is no current session, and a further
\* save of the old buffer is ignored: it plans nothing, renames nothing and
\* leaves the file system as it is.
C25_SuccessEndsInEmpty ==
    /\ \A h \in Handlers :
           (save[h].outcome = "ok") ~> (Renamed(h) /\ currentSession = NoSession)
    /\ [](\A h \in Handlers : Renamed(h) => currentSession = NoSession)
    /\ [][\A g, h \in Handlers :
             (Renamed(g) /\ SaveArrives(h)) =>
                 /\ save'[h].pc = "done"
                 /\ save'[h].end = "ignored"
                 /\ save'[h].planCalls = 0
                 /\ save'[h].applyCalls = 0
                 /\ fs' = fs
                 /\ sessions' = sessions]_vars

\* the old buffer was saved again after a successful commit
C25_Witness ==
    \E g, h \in Handlers :
        /\ Renamed(g)
        /\ save[g].applyCalls = 1
        /\ save[h].pc = "done"
        /\ save[h].end = "ignored"
        /\ currentSession = NoSession

----------------------------------------------------------------------------
(* SpecParse: a commit that has verified its files reads the buffer; the   *)
(* buffer is any text of at most MaxText characters of TextChars.          *)

MaxText == 5

TextChars == {"a", " ", "/", "\n", "\r"}

RawTexts == UNION {[1..n -> TextChars] : n \in 0..MaxText}

\* verifySessionFiles has answered true: performRename reads the buffer
SaveParse(h) ==
    LET s == save[h]
    IN  /\ s.pc = "verifying"
        /\ Verify(s.sess, sessions, fs, caseSensitive)
        /\ currentSession # NoSession
        /\ \E raw \in RawTexts : PerformRenameParse(h, s, raw, SplitLineBreaks(raw))
        /\ UNCHANGED <<caseSensitive, unique, contextAvailable, fs, fsEvents, watched, sessions,
                       currentSession, sessionLock, visibleEditors, cmd, closeEvents,
                       closeClears, workspaceState>>

InitParse ==
    /\ caseSensitive = TRUE
    /\ fs = ClosePaths
    /\ fsEvents = 0
    /\ watched = ClosePaths
    /\ \E sel \in SelectionsOf(ClosePaths) :
          /\ Len(sel) > 0
          /\ sessions = <<[files |-> StageFiles(sel), document |-> TRUE]>>
    /\ currentSession = 1
    /\ sessionLock = FALSE
    /\ isProcessingRename = TRUE
    /\ visibleEditors = {1}
    /\ save = [h \in 1..MaxSaves |->
                 IF h = 1 THEN [IdleSave EXCEPT !.pc = "verifying", !.sess = 1]
                 ELSE IdleSave]
    /\ cmd = [c \in 1..MaxCmds |-> IdleCmd]
    /\ closeEvents = 0
    /\ closeClears = <<>>
    /\ contextAvailable = FALSE
    /\ workspaceState = NoHints
    /\ unique = IdleUnique

NextParse == \E h \in 1..MaxSaves : SaveParse(h)

SpecParse == InitParse /\ [][NextParse]_vars

\* the lines of a text, one per line break, empty lines included
RECURSIVE LinesOf(_)
LinesOf(raw) ==
    IF \A i \in 1..Len(raw) : raw[i] \notin {"\n", "\r"} THEN <<raw>>
    ELSE LET n == CHOOSE i \in 1..Len(raw) :
                      /\ raw[i] \in {"\n", "\r"}
                      /\ \A j \in 1..(i - 1) : raw[j] \notin {"\n", "\r"}
         IN  <<SubSeq(raw, 1, n - 1)>> \o LinesOf(SubSeq(raw, n + 1, Len(raw)))

\* the line holds only white space
Blank(line) == \A i \in 1..Len(line) : line[i] = " "

\* the first characters of the line that are not white space are //
Commented(line) ==
    \E i \in 1..(Len(line) - 1) :
        /\ \A j \in 1..(i - 1) : line[j] = " "
        /\ line[i] = "/"
        /\ line[i + 1] = "/"

KeptLine(line) == ~Blank(line) /\ ~Commented(line)

\* C26: the names read from the saved buffer are exactly its lines that are
\* not blank and not commented, in their order, and when the commit goes on
\* to plan, name i is paired with staged file i.
C26_ParseKeepsNameLines ==
    \A h \in Handlers :
        save[h].pc \in {"planning", "done"} =>
            LET kept == SelectSeq(LinesOf(save[h].text), KeptLine)
            IN  /\ save[h].pc = "done" /\ save[h].end = "no_names" => Len(kept) = 0
                /\ save[h].pc = "done" /\ save[h].end = "count_mismatch" =>
                       /\ save[h].lineCount = Len(kept)
                       /\ Len(kept) # save[h].fileCount
                /\ save[h].pc = "planning" =>
                       /\ save[h].names = kept
                       /\ save[h].planFiles = LiveFiles

\* a buffer with more lines than names, one of its breaks a carriage
\* return, was read as two names
C26_Witness ==
    \E h \in Handlers :
        /\ save[h].pc = "planning"
        /\ Len(save[h].names) = 2
        /\ Len(LinesOf(save[h].text)) > 2
        /\ \E i \in 1..Len(save[h].text) : save[h].text[i] = "\r"

----------------------------------------------------------------------------
(* SpecAnchor: the planner and the renamer on two files that exist in two  *)
(* directories, with and without an extension context to store the hints.  *)

AnchorPaths == { <<"/", "a">>, <<"/", "d", "/", "a">> }

InitAnchor ==
    /\ caseSensitive = TRUE
    /\ fs = AnchorPaths
    /\ fsEvents = 0
    /\ watched = AnchorPaths
    /\ \E sel \in SelectionsOf(AnchorPaths) :
          /\ Len(sel) > 0
          /\ sessions = <<[files |-> StageFiles(sel), document |-> TRUE]>>
    /\ currentSession = 1
    /\ sessionLock = FALSE
    /\ isProcessingRename = FALSE
    /\ visibleEditors = {1}
    /\ save = [h \in 1..MaxSaves |->
                 IF h = 1 THEN [IdleSave EXCEPT !.pc = "plan", !.sess = 1] ELSE IdleSave]
    /\ cmd = [c \in 1..MaxCmds |-> IdleCmd]
    /\ closeEvents = 0
    /\ closeClears = <<>>
    /\ contextAvailable \in BOOLEAN
    /\ workspaceState = NoHints
    /\ unique = IdleUnique

NextAnchor ==
    \/ FsEvent
    \/ \E h \in 1..MaxSaves : CorePlan(h)
    \/ \E h \in 1..MaxSaves : XEnter(h)
    \/ \E h \in 1..MaxSaves : XApply(h)
    \/ \E h \in 1..MaxSaves : XAnchor(h)

SpecAnchor == InitAnchor /\ [][NextAnchor]_vars

\* execute of invocation h has returned after applyEdit reported success
ExecutedOk(h) == save[h].pc = "executed" /\ save[h].outcome = "ok"

\* every step of the anchor strategy of invocation h was tried and failed
AnchorAllFailed(h) ==
    /\ Len(save[h].anchorTried) = 2 * Len(save[h].ops) + 1
    /\ \A i \in 1..Len(save[h].anchorTried) : ~save[h].anchorTried[i].ok

StepOrder(h) ==
    [i \in 1..Len(save[h].ops) |-> save[h].ops[i].to]
        \o [i \in 1..Len(save[h].ops) |-> save[h].ops[i].from]
        \o <<VirtualDocument>>

\* C28: the strategy tries its steps in the fixed order and stops at the
\* first that succeeds: the attempts are a prefix of the step order, only
\* the last attempt can have succeeded, every step was tried when none
\* succeeded, and the caller gets its result whatever the attempts came to.
C28_AnchorStepsInOrder ==
    \A h \in Handlers :
        ExecutedOk(h) =>
            LET tried == save[h].anchorTried
            IN  /\ Len(tried) <= Len(StepOrder(h))
                /\ \A i \in 1..Len(tried) : tried[i].target = StepOrder(h)[i]
                /\ \A i \in 1..(Len(tried) - 1) : ~tried[i].ok
                /\ Cardinality({i \in 1..Len(tried) : tried[i].ok}) <= 1
                /\ (tried # <<>> /\ \A i \in 1..Len(tried) : ~tried[i].ok) =>
                       Len(tried) = Len(StepOrder(h))
                /\ save[h].anchorStep =
                       IF \E i \in 1..Len(tried) : tried[i].ok THEN Len(tried) ELSE 0

\* both destinations and the first source failed, the second source opened
C28_Witness ==
    \E h \in Handlers :
        /\ ExecutedOk(h)
        /\ Len(save[h].ops) = 2
        /\ Len(save[h].anchorTried) = 4
        /\ save[h].anchorTried[4].ok
        /\ save[h].anchorTried[4].target = save[h].ops[2].from

\* C29: when a source file or a destination file of the batch is open in a
\* visible editor as the strategy runs, the strategy opens no document.
C29_OpenFileMeansNoAnchor ==
    \A h \in Handlers :
        ExecutedOk(h) =>
            ((\E i \in 1..Len(save[h].ops) :
                  \/ save[h].ops[i].from \in save[h].anchorOpen
                  \/ save[h].ops[i].to \in save[h].anchorOpen)
                => save[h].anchorTried = <<>>)

----------------------------------------------------------------------------
(* getUniqueFilePath.  Each fileExists is a file-system call whose answer  *)
(* reaches the function in a later turn of the event loop; the file system *)
(* can change in between.                                                  *)

\* path.extname: from the last dot of the base name on, nothing when the
\* base name has no dot or only a leading one
PathExtname(p) ==
    LET base == PathBasename(p)
        dots == {i \in 1..Len(base) : base[i] = "."}
    IN  IF dots = {} \/ SetMax(dots) = 1 THEN <<>>
        ELSE SubSeq(base, SetMax(dots), Len(base))

\* path.basename(p, ext): the base name without the suffix ext
PathBasenameExt(p, ext) ==
    LET base == PathBasename(p)
    IN  IF /\ Len(ext) > 0
           /\ Len(base) > Len(ext)
           /\ SubSeq(base, Len(base) - Len(ext) + 1, Len(base)) = ext
        THEN SubSeq(base, 1, Len(base) - Len(ext))
        ELSE base

\* path.dirname of an absolute path
PathDirname(p) ==
    LET seps == {i \in 1..Len(p) : p[i] = "/"}
    IN  IF seps = {} THEN <<".">>
        ELSE IF SetMax(seps) = 1 THEN <<"/">>
        ELSE SubSeq(p, 1, SetMax(seps) - 1)

Digits == <<"0", "1", "2", "3", "4", "5", "6", "7", "8", "9">>

\* the decimal digits of a natural number, as the template literal writes it
RECURSIVE NumberToString(_)
NumberToString(n) ==
    IF n < 10 THEN <<Digits[n + 1]>>
    ELSE NumberToString(n \div 10) \o <<Digits[(n % 10) + 1]>>

\* the candidate with suffix num: dir/baseName_num.ext
UniqueCandidate(filePath, num) ==
    LET ext == PathExtname(filePath)
    IN  PathJoin(PathDirname(filePath),
                 PathBasenameExt(filePath, ext) \o <<"_">> \o NumberToString(num) \o ext)

UniqueInputs == { <<"/", "a", ".", "t">>, <<"/", "a">> }

UniquePaths ==
    UniqueInputs \cup {UniqueCandidate(p, k) : p \in UniqueInputs, k \in 1..2}

\* fileExists is called on the path the function is looking at
UniqueProbe ==
    /\ unique.pc \in {"first", "loop"}
    /\ LET path == IF unique.pc = "first" THEN unique.filePath ELSE unique.newPath
           answer == FileExists(path, fs, caseSensitive)
       IN  unique' = [unique EXCEPT
                         !.pc = IF unique.pc = "first" THEN "firstAnswer" ELSE "loopAnswer",
                         !.answer = answer,
                         !.probes = Append(@, [path |-> path, exists |-> answer])]
    /\ UNCHANGED <<caseSensitive, fs, fsEvents, watched, sessions, currentSession, sessionLock,
                   isProcessingRename, visibleEditors, save, cmd, closeEvents, closeClears,
                   contextAvailable, workspaceState>>

\* the answer arrives: the function returns or goes on to the next candidate
UniqueResume ==
    /\ unique.pc \in {"firstAnswer", "loopAnswer"}
    /\ IF unique.pc = "firstAnswer"
       THEN IF ~unique.answer
            THEN unique' = [unique EXCEPT !.pc = "returned", !.result = unique.filePath]
            ELSE unique' = [unique EXCEPT !.pc = "loop", !.num = 1,
                                          !.newPath = unique.filePath]
       ELSE IF unique.answer
            THEN unique' = [unique EXCEPT
                               !.pc = "loop",
                               !.newPath = UniqueCandidate(unique.filePath, unique.num),
                               !.num = unique.num + 1]
            ELSE unique' = [unique EXCEPT !.pc = "returned", !.result = unique.newPath]
    /\ UNCHANGED <<caseSensitive, fs, fsEvents, watched, sessions, currentSession, sessionLock,
                   isProcessingRename, visibleEditors, save, cmd, closeEvents, closeClears,
                   contextAvailable, workspaceState>>

InitUnique ==
    /\ caseSensitive = TRUE
    /\ fs \in SUBSET UniquePaths
    /\ fsEvents = 0
    /\ watched = UniquePaths
    /\ sessions = <<>>
    /\ currentSession = NoSession
    /\ sessionLock = FALSE
    /\ isProcessingRename = FALSE
    /\ visibleEditors = {}
    /\ save = [h \in 1..MaxSaves |-> IdleSave]
    /\ cmd = [c \in 1..MaxCmds |-> IdleCmd]
    /\ closeEvents = 0
    /\ closeClears = <<>>
    /\ contextAvailable = FALSE
    /\ workspaceState = NoHints
    /\ \E p \in UniqueInputs : unique = [IdleUnique EXCEPT !.pc = "first", !.filePath = p]

NextUnique ==
    \/ FsEvent
    \/ UniqueProbe
    \/ UniqueResume

SpecUnique == InitUnique /\ [][NextUnique]_vars

\* the candidates of the call in progress, up to the last that can exist
Candidates == [k \in 1..3 |-> UniqueCandidate(unique.filePath, k)]

\* C30: when getUniqueFilePath returns, the returned path does not exist;
\* it is the path itself when that does not exist, and otherwise the first
\* of name_1.ext, name_2.ext, ... that does not exist.
C30_UniquePathIsFree ==
    unique.pc = "returned" =>
        /\ ~FileExists(unique.result, fs, caseSensitive)
        /\ ~FileExists(unique.filePath, fs, caseSensitive) => unique.result = unique.filePath
        /\ FileExists(unique.filePath, fs, caseSensitive) =>
               \E k \in 1..3 :
                   /\ unique.result = Candidates[k]
                   /\ \A j \in 1..(k - 1) : FileExists(Candidates[j], fs, caseSensitive)

----------------------------------------------------------------------------
(* The order of the planner's checks, checked under SpecCore *)

\* the first of the six checks, in their stated order, that fires for a
\* request: 1 blank name, 2 path separator, 3 destination equal to source,
\* 4 source missing, 5 destination taken by another file, 6 none (emit)
FirstCheck(r, fsys, cs) ==
    IF \A k \in 1..Len(r.newName) : r.newName[k] = " " THEN 1
    ELSE IF HasSeparator(r.newName) THEN 2
    ELSE IF DestinationOf(r) = r.file.fsPath THEN 3
    ELSE IF ~FileExists(r.file.fsPath, fsys, cs) THEN 4
    ELSE IF /\ FileExists(DestinationOf(r), fsys, cs)
            /\ ToLowerCase(DestinationOf(r)) # ToLowerCase(r.file.fsPath) THEN 5
    ELSE 6

\* what the error of checks 2, 4 and 5 says
CheckError(c) ==
    IF c = 2 THEN "Invalid filename"
    ELSE IF c = 4 THEN "File not found"
    ELSE "Target already exists"

\* the requests of the batch planned by h whose first check is in the set cs
IndicesWithCheck(h, checks) ==
    {i \in 1..Len(PlannedRequests(h)) :
        FirstCheck(PlannedRequests(h)[i], save[h].planFs, caseSensitive) \in checks}

\* C31: plan applies its checks to each request in the order blank,
\* separator, unchanged, source missing, destination taken, and stops at the
\* first that fires: the errors of the batch are those of the requests whose
\* first check is an error check, one each and in request order, and when
\* there is none the operations are the requests no check fired for, one
\* each and in request order; blank and unchanged requests give neither.
C31_ChecksInOrder ==
    \A h \in Handlers : Planned(h) =>
        LET rs    == PlannedRequests(h)
            errs  == IndicesWithCheck(h, {2, 4, 5})
            emits == IndicesWithCheck(h, {6})
        IN  /\ Len(save[h].planErrors) = Cardinality(errs)
            /\ \A k \in 1..Cardinality(errs) :
                   save[h].planErrors[k][1] =
                       CheckError(FirstCheck(rs[Nth(errs, k)], save[h].planFs, caseSensitive))
            /\ save[h].planThrew <=> errs # {}
            /\ errs = {} =>
                   /\ Len(save[h].ops) = Cardinality(emits)
                   /\ \A k \in 1..Cardinality(emits) :
                          /\ save[h].ops[k].from = rs[Nth(emits, k)].file.fsPath
                          /\ save[h].ops[k].to = DestinationOf(rs[Nth(emits, k)])
            /\ Len(save[h].planErrors) + Len(save[h].ops) <= Len(rs)

\* an unchanged line whose source has vanished was skipped without error,
\* next to a request that was planned
C31_Witness ==
    \E h \in Handlers :
        /\ Planned(h)
        /\ Len(save[h].planFiles) = 2
        /\ FirstCheck(PlannedRequests(h)[1], save[h].planFs, caseSensitive) = 3
        /\ ~FileExists(save[h].planFiles[1].fsPath, save[h].planFs, caseSensitive)
        /\ ~save[h].planThrew
        /\ Len(save[h].ops) = 1

----------------------------------------------------------------------------
(* The session after a commit that did not rename, checked under SpecCommit *)

\* the ways a commit ends without a rename and with something to correct
FailureEnds ==
    {"verify_failed", "count_mismatch", "validation_error", "declined", "rename_failed"}

\* the commit of invocation h has ended in one of those ways
EndedInFailure(h) == save[h].pc = "done" /\ save[h].end \in FailureEnds

\* C32: a commit that ends with a failed verify, a line-count mismatch, a
\* validation error, a declined confirmation or a failed transaction leaves
\* the session live with its staged files as they were: the session
\* reference and the staged files change only in a commit whose applyEdit
\* reported success or whose plan was empty, and such a commit never ends in
\* one of those ways.
C32_FailedCommitKeepsSession ==
    /\ [](\A h \in Handlers :
             EndedInFailure(h) =>
                 /\ currentSession # NoSession
                 /\ sessions[currentSession].document
                 /\ save[h].applyCalls <= 1)
    /\ [][\A h \in Handlers :
             (save'[h] # save[h] /\ (currentSession' # currentSession \/ sessions' # sessions)) =>
                 /\ ~EndedInFailure(h)'
                 /\ \/ save'[h].outcome = "ok"
                    \/ save[h].outcome = "ok"
                    \/ save'[h].end = "nothing_to_rename"]_vars
    /\ [][\A h \in Handlers :
             (save[h].outcome = "ok" \/ save[h].end = "nothing_to_rename") =>
                 ~EndedInFailure(h)']_vars

\* the transaction of a batch of two failed and the session is still live
C32_Witness ==
    \E h \in Handlers :
        /\ EndedInFailure(h)
        /\ save[h].end = "rename_failed"
        /\ save[h].applyCalls = 1
        /\ Len(LiveFiles) = 2
        /\ \A i \in 1..2 : FileExists(LiveFiles[i].fsPath, fs, caseSensitive)

----------------------------------------------------------------------------
(* The destinations of a plan, checked under SpecCore *)

\* C33: plan never returns two operations with the same destination path.
C33_DistinctDestinations ==
    \A h \in Handlers : Planned(h) =>
        \A j, k \in 1..Len(save[h].ops) :
            j # k => save[h].ops[j].to # save[h].ops[k].to

\* source and destination name one file of the file system
SameFile(from, to, cs) == from = to \/ (~cs /\ ToLowerCase(from) = ToLowerCase(to))

\* C34: every operation plan returns has a destination that, at planning
\* time, does not exist or is the same file as its source.
C34_DestinationFreeOrSelf ==
    \A h \in Handlers : Planned(h) =>
        \A k \in 1..Len(save[h].ops) :
            \/ ~FileExists(save[h].ops[k].to, save[h].planFs, caseSensitive)
            \/ SameFile(save[h].ops[k].from, save[h].ops[k].to, caseSensitive)

----------------------------------------------------------------------------
(* The session a clearSession call drops, checked under Spec *)

\* what a clearSession call that was made while session target was live
\* may do to the session reference when it returns
DropsOnly(target) ==
    currentSession' = IF currentSession = target THEN NoSession ELSE currentSession

\* C35: a clearSession call drops only the session that was live when it
\* was called: a session created while the call was awaiting its cleanup
\* I/O is still live when the call returns.
C35_ClearDropsOwnSession ==
    [][/\ \A h \in Handlers : SaveClearEnds(h) => DropsOnly(save[h].clearOf)
       /\ \A c \in 1..MaxCmds : CmdClearEnds(c) => DropsOnly(cmd[c].clearOf)
       /\ \A i \in 1..Len(closeClears) :
              (/\ Len(closeClears') < Len(closeClears)
               /\ closeClears' = [j \in 1..(Len(closeClears) - 1) |->
                                     IF j < i THEN closeClears[j] ELSE closeClears[j + 1]])
                  => DropsOnly(closeClears[i])]_vars

----------------------------------------------------------------------------
(* The session a failing command clears, checked under SpecCreate *)

\* invocation c has created the live session and is still opening its editor
OpeningLive(c) ==
    /\ cmd[c].pc \in {"opening", "showing"}
    /\ cmd[c].sess = currentSession
    /\ currentSession # NoSession

\* the step in which the catch block of invocation c is over
CmdFailureEnds(c) == cmd[c].pc = "failing" /\ cmd'[c].pc = "done"

\* C36: an invocation of the command that fails, rejected as busy or failing
\* while it opens the staging editor, never clears the session created by
\* another invocation that is still running.
C36_FailureSparesOtherSession ==
    [][\A c, d \in Commands :
          (c # d /\ CmdFailureEnds(c) /\ OpeningLive(d)) =>
              currentSession' = currentSession]_vars

----------------------------------------------------------------------------
(* SpecGuards: commands and saves with every started continuation of a    *)
(* command and of a save listener eventually run, as the event loop        *)
(* resumes every awaited promise that settles.  The explorer may show an   *)
(* entry whose file is gone, so a create call can throw.  The user's       *)
(* events (CmdStart, SaveEvent) are not forced, and at most                *)
(* MaxGuardEvents of them happen.                                          *)

MaxGuardEvents == 3

InitGuards ==
    /\ caseSensitive = TRUE
    /\ fs \in SUBSET MainPaths
    /\ fsEvents = 0
    /\ watched = MainPaths
    /\ sessions = <<>>
    /\ currentSession = NoSession
    /\ sessionLock = FALSE
    /\ isProcessingRename = FALSE
    /\ visibleEditors = {}
    /\ save = [h \in 1..MaxSaves |-> IdleSave]
    /\ cmd = [c \in 1..MaxCmds |-> IdleCmd]
    /\ closeEvents = 0
    /\ closeClears = <<>>
    /\ contextAvailable = FALSE
    /\ workspaceState = NoHints
    /\ unique = IdleUnique

NextGuards ==
    \/ \E c \in 1..MaxCmds : UserEvents < MaxGuardEvents /\ CmdStart(c)
    \/ \E c \in 1..MaxCmds : CmdReplaced(c)
    \/ \E c \in 1..MaxCmds : CmdCreate(c)
    \/ \E c \in 1..MaxCmds : CmdOpen(c)
    \/ \E c \in 1..MaxCmds : CmdShow(c)
    \/ \E c \in 1..MaxCmds : CmdFailed(c)
    \/ \E h \in 1..MaxSaves : UserEvents < MaxGuardEvents /\ SaveEvent(h)
    \/ \E h \in 1..MaxSaves : SaveVerified(h)
    \/ \E h \in 1..MaxSaves : SavePlan(h)
    \/ \E h \in 1..MaxSaves : SaveConfirm(h)
    \/ \E h \in 1..MaxSaves : XEnter(h)
    \/ \E h \in 1..MaxSaves : XApply(h)
    \/ \E h \in 1..MaxSaves : XAnchor(h)
    \/ \E h \in 1..MaxSaves : SaveReport(h)
    \/ \E h \in 1..MaxSaves : SaveCleared(h)

SpecGuards ==
    /\ InitGuards
    /\ [][NextGuards]_vars
    /\ WF_vars(\E c \in 1..MaxCmds : CmdReplaced(c))
    /\ WF_vars(\E c \in 1..MaxCmds : CmdCreate(c))
    /\ WF_vars(\E c \in 1..MaxCmds : CmdOpen(c))
    /\ WF_vars(\E c \in 1..MaxCmds : CmdShow(c))
    /\ WF_vars(\E c \in 1..MaxCmds : CmdFailed(c))
    /\ WF_vars(\E h \in 1..MaxSaves : SaveVerified(h))
    /\ WF_vars(\E h \in 1..MaxSaves : SavePlan(h))
    /\ WF_vars(\E h \in 1..MaxSaves : SaveConfirm(h))
    /\ WF_vars(\E h \in 1..MaxSaves : XEnter(h))
    /\ WF_vars(\E h \in 1..MaxSaves : XApply(h))
    /\ WF_vars(\E h \in 1..MaxSaves : XAnchor(h))
    /\ WF_vars(\E h \in 1..MaxSaves : SaveReport(h))
    /\ WF_vars(\E h \in 1..MaxSaves : SaveCleared(h))

\* no create call is between the guard and its finally block
NoCreateInFlight == \A c \in Commands : ~InCreate(c)

\* no save listener is between the guard and its finally block
NoCommitInFlight == \A h \in 1..MaxSaves : save[h].pc \in {"idle", "done"}

\* C37: both guards are always released: the session lock is free whenever
\* no create call is in flight and the rename flag is clear whenever no
\* commit handler is in flight, whatever way the calls ended, and a guard
\* that is held is eventually released.
C37_GuardsReleased ==
    /\ [](NoCreateInFlight => ~sessionLock)
    /\ [](NoCommitInFlight => ~isProcessingRename)
    /\ (sessionLock ~> ~sessionLock)
    /\ (isProcessingRename ~> ~isProcessingRename)

\* a create call has been rejected as busy, a commit has been declined and
\* both guards are free
C37_Witness ==
    /\ \E c \in Commands : cmd[c].pc = "done" /\ cmd[c].end = "busy"
    /\ \E h \in 1..MaxSaves : save[h].pc = "done" /\ save[h].end = "declined"
    /\ ~sessionLock
    /\ ~isProcessingRename

\* the commit of listener h is in flight on the live session
CommitInFlight(h) ==
    /\ save[h].pc \notin {"idle", "done"}
    /\ save[h].sess = currentSession

\* the step is a visible-editors-changed event that starts a clearSession
CloseEventClears ==
    /\ closeEvents' = closeEvents + 1
    /\ Len(closeClears') > Len(closeClears)

\* C38: while a commit is in flight on the live session, a
\* visible-editors-changed event never starts clearing that session,
\* whatever saves and close events are interleaved with the commit.
C38_CloseSparesCommit ==
    [][(\E h \in 1..MaxSaves : CommitInFlight(h)) => ~CloseEventClears]_vars

----------------------------------------------------------------------------
(* SpecRender: openSessionEditor has written the staging buffer of a       *)
(* session, and the user saves it as it is.  The two comment lines of the  *)
(* header are shortened to "// e" and "// p".                              *)

RenderPaths ==
    { <<"/", "a">>, <<"/", " ", "a">>, <<"/", "a", "\\", "b">>, <<"/", "d", "/", "a">> }

RECURSIVE JoinLines(_)
JoinLines(names) ==
    IF names = <<>> THEN <<>>
    ELSE IF Len(names) = 1 THEN names[1]
    ELSE names[1] \o <<"\n">> \o JoinLines(Tail(names))

\* the content written to the staging file: one basename per line
SessionContent(files) == JoinLines([i \in 1..Len(files) |-> files[i].basename])

InstructionHeader ==
    <<"/", "/", " ", "e", "\n", "/", "/", " ", "p", "\n", "\n">>

\* the buffer openSessionEditor leaves: the header is inserted when the
\* active editor shows the staging document
OpenSessionEditorBuffers(files) ==
    {SessionContent(files), InstructionHeader \o SessionContent(files)}

\* verifySessionFiles has answered true: performRename reads the buffer
\* that openSessionEditor produced
SaveRendered(h) ==
    LET s == save[h]
    IN  /\ s.pc = "verifying"
        /\ Verify(s.sess, sessions, fs, caseSensitive)
        /\ currentSession # NoSession
        /\ \E raw \in OpenSessionEditorBuffers(sessions[currentSession].files) :
              PerformRenameParse(h, s, raw, SplitLineBreaks(raw))
        /\ UNCHANGED <<caseSensitive, unique, contextAvailable, fs, fsEvents, watched, sessions,
                       currentSession, sessionLock, visibleEditors, cmd, closeEvents,
                       closeClears, workspaceState>>

InitRender ==
    /\ caseSensitive \in BOOLEAN
    /\ fs = RenderPaths
    /\ fsEvents = 0
    /\ watched = RenderPaths
    /\ \E sel \in SelectionsOf(RenderPaths) :
          /\ Len(sel) > 0
          /\ sessions = <<[files |-> StageFiles(sel), document |-> TRUE]>>
    /\ currentSession = 1
    /\ sessionLock = FALSE
    /\ isProcessingRename = TRUE
    /\ visibleEditors = {1}
    /\ save = [h \in 1..MaxSaves |->
                 IF h = 1 THEN [IdleSave EXCEPT !.pc = "verifying", !.sess = 1]
                 ELSE IdleSave]
    /\ cmd = [c \in 1..MaxCmds |-> IdleCmd]
    /\ closeEvents = 0
    /\ closeClears = <<>>
    /\ contextAvailable = FALSE
    /\ workspaceState = NoHints
    /\ unique = IdleUnique

NextRender ==
    \/ \E h \in 1..MaxSaves : SaveRendered(h)
    \/ \E h \in 1..MaxSaves : SavePlan(h)
    \/ \E h \in 1..MaxSaves : SaveCleared(h)

SpecRender == InitRender /\ [][NextRender]_vars

\* the staged names of session d
StagedNames(d) ==
    [i \in 1..Len(sessions[d].files) |-> sessions[d].files[i].basename]

\* the staged names have no line break and are not made of white space
Renderable(d) ==
    \A i \in 1..Len(StagedNames(d)) :
        /\ \A k \in 1..Len(StagedNames(d)[i]) : ~IsLineBreak(StagedNames(d)[i][k])
        /\ Trim(StagedNames(d)[i]) # <<>>

\* C39: the buffer openSessionEditor produces for staged names without
\* line breaks that are not whitespace-only parses back to exactly those
\* names in order, and a commit of that unedited buffer ends with nothing
\* to rename, without a call of the rename primitive and with the session
\* cleared.
C39_UneditedBufferRoundTrip ==
    \A d \in 1..Len(sessions) :
        Renderable(d) =>
            /\ \A raw \in OpenSessionEditorBuffers(sessions[d].files) :
                  GetNewFilenamesFromDocument(SplitLineBreaks(raw)) = StagedNames(d)
            /\ \A h \in 1..MaxSaves :
                  (/\ save[h].pc = "done"
                   /\ save[h].text \in OpenSessionEditorBuffers(sessions[d].files)) =>
                      /\ save[h].end = "nothing_to_rename"
                      /\ save[h].applyCalls = 0
                      /\ currentSession = NoSession

====
